---------------------------- MODULE Spec2Model ----------------------------
(***************************************************************************)
(* EV SCMMS AI chatbot: the dialogue orchestrator (ai_chatbot/chatbot_api  *)
(* and ai_chatbot/mcp_interface) and the forecast engine                    *)
(* (ai_chatbot/forecast_engine) as state machines.                          *)
(*                                                                         *)
(* A message is a sequence of words; Vietnamese words are written in Telex  *)
(* (tuwf = "tu`", towis = "to'i" (to), toois = "to^'i" (night), owr = "o?"  *)
(* (at), ddawtj lichj = "dat lich" (schedule), sangs = morning, chieeuf =   *)
(* afternoon, car = both).  Python's `phrase in message` is a contiguous    *)
(* run of words.  None is the string "None".                                *)
(***************************************************************************)
EXTENDS Integers, Sequences, FiniteSets, TLC

\* ------------------------------------------------------------------ bounds
NDates == 3        \* explicit ISO dates a message may name (days 1..NDates)
MaxLog == 4        \* messages the conversation store holds before the model stops
MaxParts == 2      \* content parts in one model response
MaxSpareParts == 2 \* rows of the spare-part table
MaxTurns == 1      \* turns a thread of the server handles
MaxItems == 2      \* forecast items of a payload handed to the save

VARIABLES
  conversations,   \* ConversationManager.conversations: id -> list of messages
  chatbot,         \* chatbot_api.chatbot (global): "None" or "ready"
  mcp_process,     \* GeminiMCPChatbot.mcp_process: "None" or "running"
  resp,            \* the response envelope of the last request
  trace,           \* what the last request did: calls made, messages appended
  batch,           \* process_schedule_request called on its own: input and result
  fc,              \* the forecast engine called on its own: input and result
  unit,            \* a gateway call or an extractor called on its own: input and result
  workers,         \* the request threads of the server: each one's position in its turn
  inits            \* first requests running init_chatbot at the same time: the
                   \* global, the chatbots built, each thread's position

vars ==
  <<conversations, chatbot, mcp_process, resp, trace, batch, fc, unit, workers, inits>>

None == "None"

\* ------------------------------------------------------------ sequences
Contains(msg, phrase) ==
  \E i \in 1..(Len(msg) - Len(phrase) + 1) :
     SubSeq(msg, i, i + Len(phrase) - 1) = phrase

Take(s, n) == SubSeq(s, 1, IF Len(s) < n THEN Len(s) ELSE n)

Max(a, b) == IF a >= b THEN a ELSE b
Min(a, b) == IF a <= b THEN a ELSE b

\* str.lower() on the words of the vocabulary that carry capitals
Lower(w) ==
  CASE w = "Schedule" -> "schedule"
    [] w = "EV" -> "ev"
    [] w = "Service" -> "service"
    [] w = "Thur" -> "thur"
    [] w = "Dduwcs" -> "dduwcs"
    [] w = "Quaanj" -> "quaanj"
    [] OTHER -> w

LowerMsg(msg) == [i \in DOMAIN msg |-> Lower(msg[i])]

\* ------------------------------------------------------- slot extractors
\* chatbot_api.py:41-44
ScheduleKeywords ==
  { <<"tuwj", "ddoongj", "ddawtj", "lichj">>, <<"ddawtj", "lichj", "lamf">>,
    <<"ddawtj", "lichj">>, <<"auto", "schedule">>, <<"schedule">>,
    <<"lichj", "lamf">> }

is_schedule_request(message) ==
  \E keyword \in ScheduleKeywords : Contains(LowerMsg(message), keyword)

\* The ISO date words: day n of the model is DateWords[n]; "2024-13-45" matches
\* \d{4}-\d{2}-\d{2} and is no date (strptime raises ValueError).
DateWords ==
  <<"2024-01-01", "2024-01-02", "2024-01-03", "2024-01-04", "2024-01-05">>

BadDateWord == "2024-13-45"

MatchesDatePattern(w) == w = BadDateWord \/ \E n \in DOMAIN DateWords : DateWords[n] = w

\* the date read as year, day, month: only the first day of January stays what it is
strptime_day_month(w) ==
  IF \E n \in DOMAIN DateWords : DateWords[n] = w
  THEN 1 + 31 * ((CHOOSE n \in DOMAIN DateWords : DateWords[n] = w) - 1)
  ELSE 0

\* datetime.strptime(w, "%Y-%m-%d") as a day number; 0 stands for ValueError
strptime(w) ==
  IF \E n \in DOMAIN DateWords : DateWords[n] = w
  THEN CHOOSE n \in DOMAIN DateWords : DateWords[n] = w
  ELSE 0

\* timedelta(days=7) of the relative phrase
WeekDays == 7

DatePatternAt(message, i) ==
  /\ i + 5 <= Len(message)
  /\ message[i] = "tuwf" /\ message[i + 1] = "ngayf"
  /\ MatchesDatePattern(message[i + 2])
  /\ message[i + 3] = "towis" /\ message[i + 4] = "ngayf"
  /\ MatchesDatePattern(message[i + 5])

\* chatbot_api.py:46-60.  kind: "range", "none" (Python None) or "raise".
extract_date_range(message, today) ==
  IF Contains(message, <<"tuwf", "giowf">>) /\ Contains(message, <<"tuaanf", "sau">>)
  THEN [kind |-> "range", start |-> today, end |-> today + WeekDays]
  ELSE IF \E i \in DOMAIN message : DatePatternAt(message, i)
  THEN LET i == CHOOSE j \in DOMAIN message :
                  /\ DatePatternAt(message, j)
                  /\ \A k \in 1..(j - 1) : ~DatePatternAt(message, k)
           s == strptime(message[i + 2])
           e == strptime(message[i + 5])
       IN IF s = 0 \/ e = 0
          THEN [kind |-> "raise", start |-> 0, end |-> 0]
          ELSE [kind |-> "range", start |-> s, end |-> e]
  ELSE [kind |-> "none", start |-> 0, end |-> 0]

\* the extractor answering a message of no known shift with an empty list
NoShifts == <<>>

\* chatbot_api.py:72: the shifts of a message that names none
DefaultShifts == <<"Morning">>

\* the extractor asking for the night shift before the morning shift
extract_shifts_night_first(message) ==
  IF \/ Contains(message, <<"car", "2", "ca">>)
     \/ Contains(message, <<"car", "hai", "ca">>)
     \/ Contains(message, <<"2", "ca">>)
  THEN <<"Morning", "Evening">>
  ELSE IF Contains(message, <<"ca", "toois">>) \/ Contains(message, <<"toois">>)
  THEN <<"Night">>
  ELSE IF Contains(message, <<"ca", "sangs">>) \/ Contains(message, <<"sangs">>)
  THEN <<"Morning">>
  ELSE IF Contains(message, <<"ca", "chieeuf">>) \/ Contains(message, <<"chieeuf">>)
  THEN <<"Evening">>
  ELSE DefaultShifts

\* chatbot_api.py:62-72
extract_shifts(message) ==
  IF \/ Contains(message, <<"car", "2", "ca">>)
     \/ Contains(message, <<"car", "hai", "ca">>)
     \/ Contains(message, <<"2", "ca">>)
  THEN <<"Morning", "Evening">>
  ELSE IF Contains(message, <<"ca", "sangs">>) \/ Contains(message, <<"sangs">>)
  THEN <<"Morning">>
  ELSE IF Contains(message, <<"ca", "chieeuf">>) \/ Contains(message, <<"chieeuf">>)
  THEN <<"Evening">>
  ELSE IF Contains(message, <<"ca", "toois">>) \/ Contains(message, <<"toois">>)
  THEN <<"Night">>
  ELSE DefaultShifts

DefaultCenterName == <<"EV", "Service", "-", "Thur", "Dduwcs">>

RECURSIVE UntilComma(_, _)
\* the lazy (.+?) group: at least one word, then up to the first "," or the end
UntilComma(message, i) ==
  IF i > Len(message) \/ message[i] = ","
  THEN <<>>
  ELSE <<message[i]>> \o UntilComma(message, i + 1)

\* chatbot_api.py:74-80
extract_center_name(message) ==
  IF \E i \in 1..(Len(message) - 1) : message[i] = "owr"
  THEN LET i == CHOOSE j \in 1..(Len(message) - 1) :
                  message[j] = "owr" /\ \A k \in 1..(j - 1) : message[k] # "owr"
       IN <<message[i + 1]>> \o UntilComma(message, i + 2)
  ELSE DefaultCenterName

\* ------------------------------------------------ external resource gateway
\* `a in b` for two words: the pairs of the vocabulary where a is a proper part of b
SubWordPairs == { <<"serv", "service">>, <<"thu", "thur">> }

SubWord(a, b) == a = b \/ <<a, b>> \in SubWordPairs

IsKeyword(w) == w # "-" /\ w # "_"

\* name.replace('-', ' ').replace('_', ' ').split()
Keywords(name) == SelectSeq(name, IsKeyword)

Words(s) == {s[i] : i \in DOMAIN s}

RECURSIVE Score2(_, _, _)
\* twice the keyword score of chatbot_api.py:172-177 (1 for a word, 0.5 for a part)
Score2(search_keywords, center_keywords, i) ==
  IF i > Len(search_keywords)
  THEN 0
  ELSE (IF search_keywords[i] \in Words(center_keywords) THEN 2
        ELSE IF \E ck \in Words(center_keywords) : SubWord(search_keywords[i], ck) THEN 1
        ELSE 0)
       + Score2(search_keywords, center_keywords, i + 1)

RECURSIVE BestMatch(_, _, _, _, _)
\* chatbot_api.py:164-183: the index of the first center with the highest score, 0 for none
BestMatch(centers, search_keywords, i, best_match, best_score) ==
  IF i > Len(centers)
  THEN [match |-> best_match, score |-> best_score]
  ELSE LET score == Score2(search_keywords, Keywords(LowerMsg(centers[i].name)), 1)
       IN IF score > best_score
          THEN BestMatch(centers, search_keywords, i + 1, i, score)
          ELSE BestMatch(centers, search_keywords, i + 1, best_match, best_score)

FuzzyMatch(search_name, search_keywords, center_db_name) ==
  \/ Contains(center_db_name, search_name)
  \/ Contains(search_name, center_db_name)
  \/ \E k \in DOMAIN search_keywords :
        \E w \in Words(center_db_name) : SubWord(search_keywords[k], w)

\* the lookup without its first stage
NoExactStage(centers, search_name) == 0

\* chatbot_api.py:153-158: the index of the first center of that very name, 0 for none
ExactMatch(centers, search_name) ==
  IF \E i \in DOMAIN centers : LowerMsg(centers[i].name) = search_name
  THEN CHOOSE i \in DOMAIN centers :
          /\ LowerMsg(centers[i].name) = search_name
          /\ \A j \in 1..(i - 1) : LowerMsg(centers[j].name) # search_name
  ELSE 0

\* chatbot_api.py:186-189: the best keyword match if it reaches half of the keywords
KeywordMatch(centers, search_keywords) ==
  LET best == BestMatch(centers, search_keywords, 1, 0, 0)
  IN IF best.match # 0 /\ best.score >= Len(search_keywords)   \* score >= len * 0.5
     THEN best.match
     ELSE 0

\* chatbot_api.py:192-199: the index of the first center the substring test accepts
SubstringMatch(centers, search_name, search_keywords) ==
  IF \E i \in DOMAIN centers :
        FuzzyMatch(search_name, search_keywords, LowerMsg(centers[i].name))
  THEN CHOOSE i \in DOMAIN centers :
          /\ FuzzyMatch(search_name, search_keywords, LowerMsg(centers[i].name))
          /\ \A j \in 1..(i - 1) :
               ~FuzzyMatch(search_name, search_keywords, LowerMsg(centers[j].name))
  ELSE 0

\* the lookup giving up where no stage matched
NoFallback(centers) == 0

\* chatbot_api.py:202-205: the first center of the directory, 0 for an empty directory
FirstCenter(centers) == IF centers # <<>> THEN 1 ELSE 0

\* chatbot_api.py:128-214.  directory is the answer of GET /api/Center:
\* [kind |-> "exception"] or [kind |-> "http", status, centers].
find_center_by_name(center_name, directory) ==
  IF directory.kind = "exception" \/ directory.status # 200
  THEN None
  ELSE
    LET centers == directory.centers
        search_name == LowerMsg(IF center_name = <<>> THEN DefaultCenterName ELSE center_name)
        search_keywords == Keywords(search_name)
        exact == ExactMatch(centers, search_name)
        keyword == KeywordMatch(centers, search_keywords)
        substring == SubstringMatch(centers, search_name, search_keywords)
        first == FirstCenter(centers)
    IN IF exact # 0 THEN centers[exact].id
       ELSE IF keyword # 0 THEN centers[keyword].id
       ELSE IF substring # 0 THEN centers[substring].id
       ELSE IF first # 0 THEN centers[first].id
       ELSE None

\* chatbot_api.py:82-126.  db is what the centre table answers: "error" (any query
\* raises), "empty" (no active centre) or "rows" (an active centre exists, so the last
\* query at the latest returns one).
DbCenterId == "c9"

\* the lookup with a centre for every name
SomeCentreAlways(center_name, db) == DbCenterId

find_center_from_database(center_name, db) ==
  IF db = "rows" THEN DbCenterId ELSE None

\* What the auto-assign endpoint does with one call.
Behaviour(kind, status, text) == [kind |-> kind, status |-> status, text |-> text]

Ok200 == Behaviour("http", 200, "")

\* The texts of the two fixed failure results (chatbot_api.py 297, 299).
TimeoutText == "API khong phan hoi trong 30 giay"

ConnectionText == "Khong the ket noi toi API server"

\* an error field of the remote answer that is no string (a number, an object, null)
NonString == "<not a string>"

\* chatbot_api.py:269-287: the user-facing error of a non-200 answer; msg is the text
\* and raw the remote detail that follows a fixed prefix.  A remote text that meets no
\* translation is passed on as it is.
TranslateError(status, error_detail) ==
  IF error_detail \in {"no available technicians", "already assigned", "invalid shift",
                       "invalid center", "invalid date", "validation"}
  THEN [msg |-> error_detail, raw |-> ""]
  ELSE IF status = 400 THEN [msg |-> "bad request", raw |-> error_detail]
  ELSE IF status = 404 THEN [msg |-> "endpoint not found", raw |-> ""]
  ELSE IF status = 500 THEN [msg |-> "internal server error", raw |-> error_detail]
  ELSE [msg |-> error_detail, raw |-> ""]

\* the result of a rejected call without the status of the answer
RejectedNoStatus(status, error) == [success |-> FALSE, error |-> error, status_code |-> 0]

\* chatbot_api.py:289-294: the result of a non-200 answer; status_code 0 stands for a
\* result without the key
Rejected(status, error) == [success |-> FALSE, error |-> error, status_code |-> status]

\* chatbot_api.py:216-301
call_auto_assign_api(center_id, shift, work_date, behaviour) ==
  IF behaviour.kind = "timeout"
  THEN [success |-> FALSE, error |-> [msg |-> TimeoutText, raw |-> ""], status_code |-> 0]
  ELSE IF behaviour.kind = "connection"
  THEN [success |-> FALSE, error |-> [msg |-> ConnectionText, raw |-> ""], status_code |-> 0]
  ELSE IF behaviour.kind = "exception"
  THEN [success |-> FALSE, error |-> [msg |-> "connection error", raw |-> behaviour.text],
        status_code |-> 0]
  ELSE IF behaviour.status = 200
  THEN [success |-> TRUE, error |-> [msg |-> "", raw |-> ""], status_code |-> 200]
  ELSE IF behaviour.text = NonString       \* error_detail.lower() raises AttributeError
  THEN [success |-> FALSE, error |-> [msg |-> "connection error", raw |-> "AttributeError"],
        status_code |-> 0]
  ELSE Rejected(behaviour.status, TranslateError(behaviour.status, behaviour.text))

\* The endpoint during one batch: calls for a date in lo..hi and a shift in shifts
\* meet `failure`, every other call is answered 200.
RemoteBehaviour(oracle, date, shift) ==
  IF date \in oracle.lo..oracle.hi /\ shift \in oracle.shifts
  THEN oracle.failure
  ELSE Ok200

\* ------------------------------------------------------ scheduling workflow
RECURSIVE ShiftLoop(_, _, _, _, _)
\* chatbot_api.py:321-324: one call per shift of the list, in order
ShiftLoop(center_id, shifts, k, current_date, oracle) ==
  IF k > Len(shifts)
  THEN <<>>
  ELSE <<[date |-> current_date, shift |-> shifts[k],
          result |-> call_auto_assign_api(center_id, shifts[k], current_date,
                                          RemoteBehaviour(oracle, current_date, shifts[k]))]>>
       \o ShiftLoop(center_id, shifts, k + 1, current_date, oracle)

RECURSIVE DateLoopNoEnd(_, _, _, _, _)
\* the loop that stops before the end date
DateLoopNoEnd(center_id, shifts, current_date, end_date, oracle) ==
  IF current_date >= end_date
  THEN <<>>
  ELSE ShiftLoop(center_id, shifts, 1, current_date, oracle)
       \o DateLoopNoEnd(center_id, shifts, current_date + 1, end_date, oracle)

RECURSIVE DateLoop(_, _, _, _, _)
\* chatbot_api.py:320-325: while current_date <= end_date
DateLoop(center_id, shifts, current_date, end_date, oracle) ==
  IF current_date > end_date
  THEN <<>>
  ELSE ShiftLoop(center_id, shifts, 1, current_date, oracle)
       \o DateLoop(center_id, shifts, current_date + 1, end_date, oracle)

IsSuccess(r) == r.result.success
IsFailure(r) == ~r.result.success

ErrorDetail(f) ==
  [date |-> f.date, shift |-> f.shift, error |-> f.result.error,
   status_code |-> f.result.status_code]

NoDetails == [successful |-> 0, failed |-> 0, error_details |-> <<>>, center_id |-> None]

\* the details without the slice
ErrorDetailsAll(failed) == [i \in DOMAIN failed |-> ErrorDetail(failed[i])]

\* chatbot_api.py:370-377: failed[:5]
ErrorDetails(failed) == [i \in DOMAIN Take(failed, 5) |-> ErrorDetail(failed[i])]

\* the flag of a batch that reports success whatever happened
SuccessAlways(successful) == TRUE

\* the workflow without its early return
NeverEarly(date_range) == FALSE

\* chatbot_api.py:313: `if not date_range`
NoDateRange(date_range) == date_range.kind = "none"

\* chatbot_api.py:365
SuccessFlag(successful) == Len(successful) > 0

\* chatbot_api.py:303-380.  raised: strptime's ValueError leaves the function;
\* results: the auto-assign calls made, in order.
process_schedule_request(message, center_id, today, oracle) ==
  LET date_range == extract_date_range(message, today)
      shifts == extract_shifts(message)
  IN IF date_range.kind = "raise"
     THEN [raised |-> TRUE, success |-> FALSE, message |-> [kind |-> "none", ok_lines |-> 0, error_lines |-> 0],
           has_details |-> FALSE, details |-> NoDetails, results |-> <<>>]
     ELSE IF NoDateRange(date_range)
     THEN [raised |-> FALSE, success |-> FALSE,
           message |-> [kind |-> "no time range", ok_lines |-> 0, error_lines |-> 0],
           has_details |-> FALSE, details |-> NoDetails, results |-> <<>>]
     ELSE
       LET results == DateLoop(center_id, shifts, date_range.start, date_range.end, oracle)
           successful == SelectSeq(results, IsSuccess)
           failed == SelectSeq(results, IsFailure)
           errors == {failed[i].result.error : i \in DOMAIN failed}
       IN [raised |-> FALSE,
           success |-> SuccessFlag(successful),
           message |-> [kind |-> "summary", ok_lines |-> Min(5, Len(successful)),
                        error_lines |-> Min(3, Cardinality(errors))],
           has_details |-> TRUE,
           details |-> [successful |-> Len(successful), failed |-> Len(failed),
                        error_details |-> ErrorDetails(failed), center_id |-> center_id],
           results |-> results]

\* ------------------------------------------------- conversation state store
ConvIds == {"conv1", "conv2"}

EmptyStore == [c \in ConvIds |-> <<>>]

Message(role, content, function_calls) ==
  [role |-> role, content |-> content, function_calls |-> function_calls]

\* mcp_interface.py:26-38
add_message(store, conversation_id, role, content, function_calls) ==
  [store EXCEPT ![conversation_id] = Append(@, Message(role, content, function_calls))]

\* mcp_interface.py:40-42
get_conversation(store, conversation_id) == store[conversation_id]

\* mcp_interface.py:44-55
get_context_summary(store, conversation_id) ==
  LET history == get_conversation(store, conversation_id)
  IN IF history = <<>>
     THEN ""
     ELSE IF history[Len(history)].role = "user" THEN "Last" ELSE ""

\* ---------------------------------------------------- tool-calling workflow
\* mcp_interface.py:62-198
DeclaredFunctions ==
  {"get_spare_parts", "get_inventory", "get_usage_history", "forecast_demand",
   "create_sparepart"}

\* mcp_interface.py:258-511 as the caller sees it: "ok" (a result without an "error"
\* key), "error" (a result with one) or "raise".  db: the database is "up" or "down";
\* names_part: the arguments name a part (part_name or spare_part_id).
call_mcp_function(function_name, names_part, db) ==
  CASE function_name \in {"get_spare_parts", "get_inventory", "get_usage_history"} ->
         IF db = "up" THEN "ok" ELSE "raise"
    [] function_name = "forecast_demand" ->
         IF db = "down" /\ names_part THEN "error" ELSE "ok"
    [] function_name = "create_sparepart" -> "ok"
    [] OTHER -> "error"

\* A content part of the model's answer: "text", or the name of the function it calls.
IsFunctionCall(part) == part # "text"

FunctionCallParts(parts) == SelectSeq(parts, IsFunctionCall)

\* mcp_interface.py:599
max_calls == 1

\* every function-call part of the answer, as the loop would run them without its break
ExecutedCallsNoBreak(parts) == FunctionCallParts(parts)

\* mcp_interface.py:602-648: the calls the loop makes while every call succeeds.  Each
\* pass runs the first function-call part and breaks; the answer never changes.
ExecutedCalls(parts) ==
  IF FunctionCallParts(parts) = <<>>
  THEN <<>>
  ELSE [i \in 1..max_calls |-> FunctionCallParts(parts)[1]]

\* The response envelope.  keys: the keys the payload carries; a field whose key is
\* absent holds its default.  via: the HTTP status or the socket event.
Envelope(via, kind, keys, success, response, function_calls, data, conversation_id) ==
  [via |-> via, kind |-> kind, keys |-> keys, success |-> success, response |-> response,
   function_calls |-> function_calls, function_call_count |-> Len(function_calls),
   data |-> data, conversation_id |-> conversation_id]

ErrorKeys == {"success", "error", "conversation_id", "timestamp"}

ChatKeys ==
  {"success", "response", "function_calls", "function_results", "conversation_id",
   "user_id", "timestamp", "function_call_count"}

BlockedKeys ==
  {"success", "response", "mode", "conversation_id", "timestamp", "function_calls",
   "function_results", "function_call_count"}

Turn(result, store, tools, fallback_calls, context_summary) ==
  [result |-> result, store |-> store, tools |-> tools, primary_calls |-> 1,
   fallback_calls |-> fallback_calls, context_summary |-> context_summary]

Failure(kind, conversation_id) ==
  [kind |-> kind, keys |-> ErrorKeys, success |-> FALSE, response |-> "",
   function_calls |-> <<>>, conversation_id |-> conversation_id]

\* mcp_interface.py:695-704: the normal return
ChatReturn(conversation_id, ai_response, function_results) ==
  [kind |-> "chat", keys |-> ChatKeys, success |-> TRUE, response |-> ai_response,
   function_calls |-> function_results, conversation_id |-> conversation_id]

\* mcp_interface.py:686-693
SaveTurn(store, conversation_id, ai_response, function_results) ==
  add_message(add_message(store, conversation_id, "user", "message", <<>>),
              conversation_id, "assistant", "ai_response", function_results)

\* the failed turn keeping the user message without an error entry after it
SaveErrorUserOnly(store, conversation_id) ==
  add_message(store, conversation_id, "user", "message", <<>>)

\* mcp_interface.py:709-715
SaveError(store, conversation_id) ==
  add_message(add_message(store, conversation_id, "user", "message", <<>>),
              conversation_id, "error", "error_msg", <<>>)

\* mcp_interface.py:546-722.  llm is what the models and the tool's database do in
\* this turn:
\*   primary      "raise" (send_message raises) or "answer"
\*   candidates   the answer has a candidate;  finish_reason  its finish reason (1: STOP)
\*   parts        the candidate's content parts
\*   text         response.text: "valid", "short" (under 5 characters), "empty", "raise"
\*   names_part, db   see call_mcp_function
\*   fallback     the tool-less model: "text" or "raise"
process_chat_message(message, conversation_id, store, llm) ==
  LET context_summary == get_context_summary(store, conversation_id)
      calls == ExecutedCalls(llm.parts)
      outcome == IF calls = <<>> THEN "none"
                 ELSE call_mcp_function(calls[1], llm.names_part, llm.db)
      function_results == IF outcome = "ok" THEN calls ELSE <<>>
      executed == IF outcome \in {"error", "raise"} THEN Take(calls, 1) ELSE calls
      unusable == llm.text \in {"short", "empty"}
      ask_fallback == function_results = <<>> /\ unusable
      ai_response == IF function_results # <<>> /\ unusable THEN "formatted"
                     ELSE IF unusable
                     THEN (IF llm.fallback = "raise" THEN "apology" ELSE "fallback text")
                     ELSE "model text"
  IN IF llm.primary = "raise"
     THEN Turn(Failure("exception", conversation_id), SaveError(store, conversation_id),
               <<>>, 0, context_summary)
     ELSE IF ~llm.candidates \/ llm.finish_reason # 1
     THEN IF llm.fallback = "raise"
          THEN Turn(Failure("blocked and fallback failed", conversation_id), store,
                    <<>>, 1, context_summary)
          ELSE Turn([kind |-> "fallback_due_to_blocked_response", keys |-> BlockedKeys,
                     success |-> TRUE, response |-> "fallback text",
                     function_calls |-> <<>>, conversation_id |-> conversation_id],
                    store, <<>>, 1, context_summary)
     ELSE IF outcome = "error"
     THEN Turn(Failure("function error", conversation_id), store, executed, 0,
               context_summary)
     ELSE IF outcome = "raise"
     THEN Turn(Failure("function raised", conversation_id), store, executed, 0,
               context_summary)
     ELSE IF llm.text = "raise"
     THEN Turn(Failure("ai response error", conversation_id), store, executed, 0,
               context_summary)
     ELSE Turn(ChatReturn(conversation_id, ai_response, function_results),
               SaveTurn(store, conversation_id, ai_response, function_results),
               executed, IF ask_fallback THEN 1 ELSE 0, context_summary)

\* ------------------------------------------------------------ orchestrator
NoResponse ==
  [via |-> "none", kind |-> "none", keys |-> {}, success |-> FALSE, response |-> "",
   function_calls |-> <<>>, function_call_count |-> 0, data |-> NoDetails,
   conversation_id |-> None]

NoTrace ==
  [entry |-> "none", workflow |-> "none", date_kind |-> "none", center_given |-> FALSE,
   by_name |-> None, db |-> "none", remote |-> <<>>, succeeded |-> 0, tools |-> <<>>, primary_calls |-> 0,
   fallback_calls |-> 0, primary |-> "none", text |-> "none", fallback |-> "none",
   fc_parts |-> 0, context_summary |-> "", appended |-> <<>>, message_text |-> "none"]

RECURSIVE Repeat(_, _)
Repeat(x, n) == IF n <= 0 THEN <<>> ELSE <<x>> \o Repeat(x, n - 1)

\* chatbot_api.py:33-39 (and mcp_interface.py:229-248): the first call builds the
\* chatbot, with a new conversation store, and starts the tool server
init_chatbot(st) ==
  IF st.chatbot = None
  THEN [chatbot |-> "ready", mcp_process |-> "running", store |-> EmptyStore]
  ELSE st

Roles(s) == [i \in DOMAIN s |-> s[i].role]

Appended(before, after, cid) ==
  Roles(SubSeq(after[cid], Len(before[cid]) + 1, Len(after[cid])))

\* How the primary model's answer looks to the workflow
PrimaryState(llm) ==
  IF llm.primary = "raise" THEN "raise"
  ELSE IF ~llm.candidates THEN "no candidates"
  ELSE IF llm.finish_reason # 1 THEN "blocked"
  ELSE "answered"

Outcome(st, result, tr) ==
  [chatbot |-> st.chatbot, mcp_process |-> st.mcp_process, store |-> st.store,
   resp |-> result, trace |-> tr]

\* chatbot_api.py:461-472 and 548-557: the tool-calling workflow of both entry points
ChatTurn(st, entry, via, req, llm) ==
  LET bot == init_chatbot(st)
      t == process_chat_message(req.message, req.cid, bot.store, llm)
      r == t.result
  IN Outcome([bot EXCEPT !.store = t.store],
             Envelope(via, r.kind, r.keys, r.success, r.response, r.function_calls,
                      NoDetails, r.conversation_id),
             [NoTrace EXCEPT !.entry = entry, !.workflow = "tool",
                             !.tools = t.tools, !.primary_calls = t.primary_calls,
                             !.fallback_calls = t.fallback_calls,
                             !.primary = PrimaryState(llm), !.text = llm.text,
                             !.fallback = IF t.fallback_calls > 0 THEN llm.fallback ELSE "none",
                             !.fc_parts = Len(FunctionCallParts(llm.parts)),
                             !.context_summary = t.context_summary,
                             !.appended = Appended(bot.store, t.store, req.cid)])

\* chatbot_api.py:450-459 and 537-546: the batch and its envelope
ScheduleTurn(st, entry, via, error_via, error_keys, req, center_id, remote, world) ==
  LET schedule_result == process_schedule_request(req.message, center_id, world.today,
                                                  world.oracle)
      n == Len(schedule_result.results)
      tr == [NoTrace EXCEPT !.entry = entry, !.workflow = "schedule",
                            !.date_kind = extract_date_range(req.message, world.today).kind,
                            !.center_given = req.center # None,
                            !.by_name = find_center_by_name(extract_center_name(req.message),
                                                            world.directory),
                            !.db = world.db,
                            !.remote = remote \o Repeat("POST auto-assign", n),
                            !.succeeded = Len(SelectSeq(schedule_result.results, IsSuccess))]
  IN IF schedule_result.raised
     THEN Outcome(st, Envelope(error_via, "exception", error_keys, FALSE, "", <<>>,
                               NoDetails, None), tr)
     ELSE Outcome(st, Envelope(via, "schedule",
                               {"response", "success", "function_calls", "data",
                                "conversation_id", "timestamp"},
                               schedule_result.success, schedule_result.message.kind,
                               <<"auto_assign_schedule">>, schedule_result.details, req.cid),
                  tr)

\* chatbot_api.py:391-479.  req: msg_key ("absent", "null", "present"), message, cid,
\* context ("null", or "given" with center None or an id).  world: what the
\* collaborators do during the request.
api_chat(st, req, world) ==
  LET error500 == Outcome(st, Envelope("http500", "exception",
                                       {"error", "success", "timestamp"}, FALSE, "",
                                       <<>>, NoDetails, None),
                          [NoTrace EXCEPT !.entry = "api_chat", !.workflow = "error"])
      center_name == extract_center_name(req.message)
      by_name == find_center_by_name(center_name, world.directory)
      by_db == find_center_from_database(center_name, world.db)
      center_id == IF req.center # None THEN req.center
                   ELSE IF by_name # None THEN by_name ELSE by_db
      remote == IF req.center # None THEN <<>>
                ELSE IF by_name # None THEN <<"GET /api/Center">>
                ELSE <<"GET /api/Center", "centertuantm lookup">>
  IN IF req.msg_key = "absent"
     THEN Outcome(st, Envelope("http400", "message required", {"error", "success"},
                               FALSE, "", <<>>, NoDetails, None),
                  [NoTrace EXCEPT !.entry = "api_chat", !.workflow = "rejected"])
     ELSE IF req.context = "null" \/ req.msg_key = "null"
     THEN error500
     ELSE IF is_schedule_request(req.message)
     THEN IF center_id = None
          THEN Outcome(st, Envelope("http200", "center not found",
                                    {"response", "success", "conversation_id", "timestamp"},
                                    FALSE, "center not found", <<>>, NoDetails, req.cid),
                       [NoTrace EXCEPT !.entry = "api_chat", !.workflow = "schedule",
                                       !.date_kind = extract_date_range(req.message, world.today).kind,
                                       !.by_name = by_name, !.db = world.db,
                                       !.remote = remote])
          ELSE ScheduleTurn(st, "api_chat", "http200", "http500",
                            {"error", "success", "timestamp"}, req, center_id, remote, world)
     ELSE ChatTurn(st, "api_chat", "http200", req, world.llm)

\* chatbot_api.py:512-560.  The socket handler: req.center is data.get('center_id').
handle_chat_message(st, req, world) ==
  LET center_name == extract_center_name(req.message)
      by_name == find_center_by_name(center_name, world.directory)
      center_id == IF req.center # None THEN req.center ELSE by_name
      remote == IF req.center # None THEN <<>> ELSE <<"GET /api/Center">>
  IN IF req.msg_key # "present" \/ req.message = <<>>
     THEN Outcome(st, Envelope("emit error", "message required", {"message"}, FALSE, "",
                               <<>>, NoDetails, None),
                  [NoTrace EXCEPT !.entry = "handle_chat_message", !.workflow = "rejected"])
     ELSE IF is_schedule_request(req.message)
     THEN IF center_id = None
          THEN Outcome(st, Envelope("emit error", "center not found", {"message"}, FALSE,
                                    "center not found", <<>>, NoDetails, None),
                       [NoTrace EXCEPT !.entry = "handle_chat_message",
                                       !.workflow = "schedule",
                                       !.date_kind = extract_date_range(req.message, world.today).kind,
                                       !.by_name = by_name, !.db = world.db,
                                       !.remote = remote])
          ELSE ScheduleTurn(st, "handle_chat_message", "emit chat_response", "emit error",
                            {"message"}, req, center_id, remote, world)
     ELSE ChatTurn(st, "handle_chat_message", "emit chat_response", req, world.llm)

\* ------------------------------------------------- requests and collaborators
MsgSchedule == <<"ddawtj", "lichj">>

MsgChat == <<"xin", "chaof">>

MsgRange(d1, d2, shift_words) ==
  MsgSchedule \o <<"tuwf", "ngayf", DateWords[d1], "towis", "ngayf", DateWords[d2]>>
              \o shift_words

MsgRelative(shift_words) ==
  MsgSchedule \o <<"tuwf", "giowf", "towis", "tuaanf", "sau">> \o shift_words

MsgBadDate ==
  MsgSchedule \o <<"tuwf", "ngayf", DateWords[1], "towis", "ngayf", BadDateWord>>

MsgCenter == <<"Schedule", "ca", "toois", "owr", "Quaanj", "1">>

ScheduleMessages ==
  {MsgSchedule, MsgBadDate, MsgCenter, MsgRange(1, 2, <<"car", "2", "ca">>)}

Request(msg_key, message, cid, context, center) ==
  [msg_key |-> msg_key, message |-> message, cid |-> cid, context |-> context,
   center |-> center]

\* The requests of the model: without a message, with a null message, with a null
\* context, a plain message (an empty one too) in either conversation, and a
\* scheduling message with and without a centre id.
Requests ==
  {Request("absent", <<>>, "conv1", "given", None),
   Request("null", <<>>, "conv1", "given", None),
   Request("present", MsgChat, "conv1", "null", None)}
  \cup {Request("present", m, c, "given", None) : m \in {MsgChat, <<>>}, c \in ConvIds}
  \cup {Request("present", m, "conv1", "given", c) : m \in ScheduleMessages, c \in {None, "c1"}}

Center(id, name) == [id |-> id, name |-> name]

CenterIds == <<"c1", "c2", "c3">>

Directory(kind, status, centers) == [kind |-> kind, status |-> status, centers |-> centers]

Directories ==
  {Directory("exception", 0, <<>>), Directory("http", 500, <<>>),
   Directory("http", 200, <<>>),
   Directory("http", 200, <<Center("c1", DefaultCenterName),
                            Center("c2", <<"EV", "Service", "-", "Quaanj", "1">>)>>)}

Oracle(lo, hi, shifts, failure) ==
  [lo |-> lo, hi |-> hi, shifts |-> shifts, failure |-> failure]

AllShifts == {"Morning", "Evening", "Night"}

NoFailure == Oracle(1, 0, {}, Ok200)

\* the parts the model's answers are drawn from: text, two declared functions and a
\* name that is not declared
PartKinds == {"text", "get_inventory", "forecast_demand", "unknown_function"}

PartSeqs == UNION {[1..n -> PartKinds] : n \in 0..MaxParts}

LLM(primary, candidates, finish_reason, parts, text, names_part, db, fallback) ==
  [primary |-> primary, candidates |-> candidates, finish_reason |-> finish_reason,
   parts |-> parts, text |-> text, names_part |-> names_part, db |-> db,
   fallback |-> fallback]

NoLLM == LLM("raise", FALSE, 0, <<>>, "empty", FALSE, "up", "text")

\* response.text of an answer with these parts: the joined text parts; the accessor of
\* google.generativeai raises ValueError on an answer without parts and on a
\* function-call part
TextOutcomes(parts) ==
  IF "text" \in Words(parts)
  THEN {"valid", "short"} \cup (IF FunctionCallParts(parts) # <<>> THEN {"raise"} ELSE {})
  ELSE {"empty", "raise"}

\* The answers with these parts, told apart only by what the turn can observe: the
\* database when a tool that reads it runs, the fallback model when it is asked.
AnswersWith(parts) ==
  LET fcs == FunctionCallParts(parts)
      names == IF fcs # <<>> /\ fcs[1] = "forecast_demand" THEN BOOLEAN ELSE {FALSE}
      dbs == IF fcs # <<>> /\ fcs[1] \in {"get_inventory", "forecast_demand"}
             THEN {"up", "down"} ELSE {"up"}
      fallbacks == IF fcs = <<>> THEN {"text", "raise"} ELSE {"text"}
  IN UNION {UNION {UNION {{LLM("answer", TRUE, 1, parts, t, np, db, f) :
                             f \in fallbacks} :
                          db \in dbs} :
                   np \in names} :
            t \in TextOutcomes(parts)}

LLMs ==
  {NoLLM}
  \cup {LLM("answer", FALSE, 0, <<>>, "empty", FALSE, "up", f) : f \in {"text", "raise"}}
  \cup {LLM("answer", TRUE, 3, <<>>, "empty", FALSE, "up", f) : f \in {"text", "raise"}}
  \cup UNION {AnswersWith(parts) : parts \in PartSeqs}

World(directory, db, today, oracle, llm) ==
  [directory |-> directory, db |-> db, today |-> today, oracle |-> oracle, llm |-> llm]

\* What a request can meet.  A scheduling request meets the centre directory, the
\* centre table and the auto-assign endpoint; any other request meets the models.
Worlds(req) ==
  IF req.msg_key = "present" /\ is_schedule_request(req.message)
  THEN {World(d, b, 1, o, NoLLM) :
          d \in Directories, b \in {"error", "empty", "rows"},
          o \in {NoFailure, Oracle(1, 1 + WeekDays, AllShifts, Behaviour("timeout", 0, "")),
                 Oracle(1, 1, {"Morning"}, Behaviour("http", 400, "no available technicians"))}}
  ELSE {World(Directory("exception", 0, <<>>), "error", 1, NoFailure, l) : l \in LLMs}

NoBatch == [phase |-> "idle"]

\* ------------------------------------------------------------ forecast engine
NoForecast == [phase |-> "idle"]

NoUnit == [phase |-> "idle"]

\* the threads of the server that handle requests at the same time
Threads == {1, 2}

\* a thread between two requests, after `turns` turns
Idle(turns) ==
  [pc |-> "idle", turns |-> turns, conversation_id |-> None, reply |-> None,
   role |-> None, missing |-> FALSE]

NoWorkers == [t \in Threads |-> Idle(0)]

\* no chatbot built, the global None, every thread between two requests
NoInits ==
  [chatbot |-> 0, built |-> <<>>,
   threads |-> [t \in Threads |-> [pc |-> "idle", turns |-> 0, bot |-> 0,
                                   conversation_id |-> None]]]

\* Rows as db_connection.fetch returns them, reduced to the columns the engine reads.
SparePart(sparepartid, unitprice) == [sparepartid |-> sparepartid, unitprice |-> unitprice]

InventoryRow(sparepartid, quantity, minimumstocklevel) ==
  [sparepartid |-> sparepartid, quantity |-> quantity,
   minimumstocklevel |-> minimumstocklevel]

UsageRow(sparepartid, quantityused) ==
  [sparepartid |-> sparepartid, quantityused |-> quantityused]

\* One entry of spare_parts_forecasts.  monthly_forecasts is forecast_months entries
\* that all carry predicted_demand and confidence.
ForecastItem(spare_part_id, unit_price, current_stock, minimum_stock_level, total_forecast_demand, suggested_order_quantity, replenishment_needed, estimated_cost, urgency_level, predicted_demand, confidence) ==
  [spare_part_id |-> spare_part_id, unit_price |-> unit_price,
   current_stock |-> current_stock, minimum_stock_level |-> minimum_stock_level,
   total_forecast_demand |-> total_forecast_demand,
   suggested_order_quantity |-> suggested_order_quantity,
   replenishment_needed |-> replenishment_needed, estimated_cost |-> estimated_cost,
   urgency_level |-> urgency_level, predicted_demand |-> predicted_demand,
   confidence |-> confidence]

RECURSIVE MatchingInventory(_, _, _)
\* forecast_engine.py:296-303: the first inventory row of the part; `or 10` turns a
\* minimum of 0 into 10
MatchingInventory(inventory, part_id, k) ==
  IF k > Len(inventory)
  THEN [current_stock |-> 0, min_stock |-> 10]
  ELSE IF inventory[k].sparepartid = part_id
  THEN [current_stock |-> inventory[k].quantity,
        min_stock |-> IF inventory[k].minimumstocklevel = 0
                      THEN 10 ELSE inventory[k].minimumstocklevel]
  ELSE MatchingInventory(inventory, part_id, k + 1)

RECURSIVE HistoricalUsage(_, _, _)
\* forecast_engine.py:306-310
HistoricalUsage(usage_history, part_id, k) ==
  IF k > Len(usage_history)
  THEN 0
  ELSE (IF usage_history[k].sparepartid = part_id THEN usage_history[k].quantityused ELSE 0)
       + HistoricalUsage(usage_history, part_id, k + 1)

\* the demand rounded to the nearest integer, halves upwards
TotalDemandRounded(historical_usage, unit_price, forecast_months) ==
  IF historical_usage > 0
  THEN (2 * historical_usage * forecast_months * 12 + 24 * 10) \div (2 * 24 * 10)
  ELSE (IF unit_price > 1000000 THEN 2 ELSE IF unit_price > 500000 THEN 5 ELSE 8)
       * forecast_months

\* forecast_engine.py:312-326.  int(historical_usage / 24 * forecast_months * 1.2)
\* truncates; for the usage totals and periods of this model the float product is
\* the exact quotient's, so the whole part of usage * months * 12 / 240 is the value.
TotalDemand(historical_usage, unit_price, forecast_months) ==
  IF historical_usage > 0
  THEN (historical_usage * forecast_months * 12) \div (24 * 10)
  ELSE (IF unit_price > 1000000 THEN 2 ELSE IF unit_price > 500000 THEN 5 ELSE 8)
       * forecast_months

\* monthly_avg > 5 with monthly_avg = historical_usage / 24
Urgency(historical_usage, unit_price) ==
  IF historical_usage > 0
  THEN (IF historical_usage > 5 * 24 THEN "high" ELSE "medium")
  ELSE IF unit_price > 1000000 THEN "high"
  ELSE IF unit_price > 500000 THEN "medium" ELSE "low"

\* forecast_engine.py:289-350: the candidate item of one part
forecast_item(part, inventory, usage_history, forecast_months) ==
  LET part_id == part.sparepartid
      unit_price == part.unitprice
      inv == MatchingInventory(inventory, part_id, 1)
      current_stock == inv.current_stock
      min_stock == inv.min_stock
      historical_usage == HistoricalUsage(usage_history, part_id, 1)
      total_demand == TotalDemand(historical_usage, unit_price, forecast_months)
      suggested_qty == Max(0, total_demand + min_stock - current_stock)
      replenishment_needed == current_stock < (total_demand + min_stock)
  IN ForecastItem(part_id, unit_price, current_stock, min_stock, total_demand,
                  suggested_qty, replenishment_needed, suggested_qty * unit_price,
                  Urgency(historical_usage, unit_price),
                  Max(1, total_demand \div forecast_months),
                  IF historical_usage > 0 THEN 8 ELSE 6)

\* forecast_engine.py:288-350
all_forecasts(spare_parts, inventory, usage_history, forecast_months) ==
  [i \in DOMAIN spare_parts |->
     forecast_item(spare_parts[i], inventory, usage_history, forecast_months)]

\* forecast_engine.py:357-362; current_stock <= minimum_stock_level * 1.5
PassesFilter(f) ==
  \/ f.replenishment_needed
  \/ 2 * f.current_stock <= 3 * f.minimum_stock_level
  \/ f.total_forecast_demand > f.current_stock

RECURSIVE InsertByDemand(_, _)
\* an item goes behind the items whose demand is not smaller: sorted() is stable
InsertByDemand(sorted, f) ==
  IF sorted = <<>> THEN <<f>>
  ELSE IF Head(sorted).total_forecast_demand >= f.total_forecast_demand
  THEN <<Head(sorted)>> \o InsertByDemand(Tail(sorted), f)
  ELSE <<f>> \o sorted

\* forecast_engine.py:372: sorted_forecasts[:3]
TopCount == 3

\* the candidates in the order of the parts query, not sorted
unsorted_forecasts(items) == items

RECURSIVE sorted_forecasts(_)
\* forecast_engine.py:371: sorted(all_forecasts, key=total_forecast_demand, reverse=True)
sorted_forecasts(items) ==
  IF items = <<>> THEN <<>>
  ELSE InsertByDemand(sorted_forecasts(Take(items, Len(items) - 1)), items[Len(items)])

\* forecast_engine.py:373-374
ForceInclude(f) == [f EXCEPT !.replenishment_needed = TRUE]

\* forecast_engine.py:355-375: the items of the data-driven computation
DataDrivenForecasts(spare_parts, inventory, usage_history, forecast_months) ==
  LET all == all_forecasts(spare_parts, inventory, usage_history, forecast_months)
      forecasts == SelectSeq(all, PassesFilter)
      top == Take(sorted_forecasts(all), TopCount)
  IN IF forecasts = <<>> /\ all # <<>>
     THEN [i \in DOMAIN top |-> ForceInclude(top[i])]
     ELSE forecasts

\* What one generate_content call gives: kind "raise" (the call or the text accessor
\* raises), "no text", "not json" (json.loads raises), "not object" (JSON that is no
\* object), or "object" with the top-level keys it carries and their values.
Generated(kind, keys, success, data_source, items, message) ==
  [kind |-> kind, keys |-> keys, success |-> success, data_source |-> data_source,
   items |-> items, message |-> message]

Failed(kind) == Generated(kind, {}, FALSE, "", <<>>, "")

\* an element of spare_parts_forecasts that is a JSON object, so that .get works
IsObject(item) == "spare_part_id" \in DOMAIN item

\* The payload the engine returns; a key that is absent holds its default.
Payload(data_source, success, keys, forecast_period_months, spare_parts_forecasts, message) ==
  [data_source |-> data_source, success |-> success, keys |-> keys,
   forecast_period_months |-> forecast_period_months,
   spare_parts_forecasts |-> spare_parts_forecasts, message |-> message]

\* forecast_engine.py:221-225 and 571-575: {"data_source": tier, "success": True,
\* **parsed}: a key of the parsed object replaces the engine's
Merge(tier, obj) ==
  Payload(IF "data_source" \in obj.keys THEN obj.data_source ELSE tier,
          IF "success" \in obj.keys THEN obj.success ELSE TRUE,
          {"data_source", "success"} \cup obj.keys,
          0,
          IF "spare_parts_forecasts" \in obj.keys THEN obj.items ELSE <<>>,
          IF "summary" \in obj.keys THEN obj.message ELSE "")

FullKeys ==
  {"data_source", "success", "forecast_period_months", "analysis_date",
   "spare_parts_forecasts", "summary"}

\* tier: the stage of the engine that built the payload
Forecast(payload, model_calls, tier) ==
  [payload |-> payload, model_calls |-> model_calls, tier |-> tier]

\* the second attempt taking an answer without text for a forecast of no items
SecondAttemptEmptyText(second, data_driven) ==
  IF second.kind = "object"
  THEN (IF "spare_parts_forecasts" \in second.keys THEN second.items ELSE <<>>)
  ELSE IF second.kind = "no text" THEN <<>>
  ELSE data_driven

\* forecast_engine.py:232-379: the items of the second generative attempt if its
\* answer parses (ai_data.get('spare_parts_forecasts', [])), and for every failure of
\* the attempt, caught at line 284, the items computed from the data
SecondAttempt(second, data_driven) ==
  IF second.kind = "object"
  THEN (IF "spare_parts_forecasts" \in second.keys THEN second.items ELSE <<>>)
  ELSE data_driven

\* forecast_engine.py:119-422.  ai: what the model gives for the simplified prompt,
\* the second prompt and the recommendations prompt.
generate_simple_forecast(data_dict, forecast_months, ai) ==
  LET spare_parts == data_dict.spare_parts
      inventory == data_dict.inventory
      usage_history == data_dict.usage_history
      second_ok == ai.second.kind = "object"
      forecasts == SecondAttempt(ai.second,
                                 DataDrivenForecasts(spare_parts, inventory, usage_history,
                                                     forecast_months))
  IN IF spare_parts = <<>> /\ inventory = <<>>
     THEN Forecast(Payload("no_data_available", TRUE, FullKeys, forecast_months, <<>>,
                           "no data message"),
                   <<>>, "no data")
     ELSE IF ai.simple.kind = "object"
     THEN Forecast(Merge("ai_simple_analysis", ai.simple), <<"simple_prompt">>, "simple")
     ELSE IF \E i \in DOMAIN forecasts : ~IsObject(forecasts[i])
     THEN Forecast(Payload("error_fallback", FALSE, {"data_source", "success", "error"},
                           0, <<>>, ""),
                   <<"simple_prompt", "fallback_prompt">>, "error")
     ELSE Forecast(Payload("ai_enhanced_comprehensive", TRUE,
                           FullKeys \cup {"data_coverage"}, forecast_months, forecasts,
                           "analysis message"),
                   <<"simple_prompt", "fallback_prompt", "rec_prompt">>,
                   IF second_ok THEN "second" ELSE "deterministic")

\* the engine going on to the simplified forecast whatever the primary attempt gave
generate_forecast_on(spare_part_id, center_id, forecast_months, db, ai) ==
  IF db.fetch = "raise"
  THEN Forecast(Payload("supabase_real_data", FALSE, {"data_source", "success", "error"},
                        0, <<>>, ""),
                <<>>, "error")
  ELSE LET simple == generate_simple_forecast(db, forecast_months, ai)
       IN Forecast(simple.payload, <<"forecast_prompt">> \o simple.model_calls,
                   simple.tier)

\* forecast_engine.py:424-595.  db: whether the fetches succeed and the rows they
\* return; ai.primary: what the model gives for the primary prompt.
generate_forecast(spare_part_id, center_id, forecast_months, db, ai) ==
  IF db.fetch = "raise"
  THEN Forecast(Payload("supabase_real_data", FALSE, {"data_source", "success", "error"},
                        0, <<>>, ""),
                <<>>, "error")
  ELSE IF ai.primary.kind = "object"
  THEN Forecast(Merge("ai_analysis_real_data", ai.primary), <<"forecast_prompt">>,
                "primary")
  ELSE LET simple == generate_simple_forecast(db, forecast_months, ai)
       IN Forecast(simple.payload, <<"forecast_prompt">> \o simple.model_calls,
                   simple.tier)

\* ------------------------------------------------ data and model answers
PartIds == <<"p1", "p2", "p3", "p4", "p5">>

Profile(unitprice, stocked, quantity, minimumstocklevel, used) ==
  [unitprice |-> unitprice, stocked |-> stocked, quantity |-> quantity,
   minimumstocklevel |-> minimumstocklevel, used |-> used]

\* A part as the three tables describe it: its price, its inventory row if it has
\* one, the quantity used in the last 24 months.
Profiles ==
  {Profile(400000, FALSE, 0, 0, 0),    Profile(400000, TRUE, 100, 10, 0),
   Profile(2000000, TRUE, 100, 0, 0),  Profile(600000, TRUE, 12, 10, 7),
   Profile(600000, TRUE, 100, 10, 130), Profile(2000000, TRUE, 5, 10, 130),
   Profile(600000, TRUE, 100, 10, 0),  Profile(400000, TRUE, 100, 10, 7),
   Profile(400000, TRUE, 3, 10, 12)}

\* SELECT ... ORDER BY UnitPrice DESC
ByPriceDesc(profiles) ==
  \A i \in 1..(Len(profiles) - 1) : profiles[i].unitprice >= profiles[i + 1].unitprice

ProfileSeqs ==
  {ps \in UNION {[1..n -> Profiles] : n \in 0..MaxSpareParts} : ByPriceDesc(ps)}

\* parts with stock well above their demand: none passes the filter of the engine
WellStocked ==
  {Profile(2000000, TRUE, 100, 0, 0), Profile(600000, TRUE, 100, 10, 130),
   Profile(600000, TRUE, 100, 10, 0), Profile(400000, TRUE, 100, 10, 0),
   Profile(400000, TRUE, 100, 10, 7)}

\* tables of one part more than the engine includes by force, all different
StockedTables ==
  {ps \in [1..(TopCount + 1) -> WellStocked] :
     ByPriceDesc(ps) /\ \A i, j \in DOMAIN ps : ps[i] = ps[j] => i = j}

RECURSIVE InsertByQuantity(_, _)
InsertByQuantity(rows, r) ==
  IF rows = <<>> THEN <<r>>
  ELSE IF Head(rows).quantity <= r.quantity
  THEN <<Head(rows)>> \o InsertByQuantity(Tail(rows), r)
  ELSE <<r>> \o rows

RECURSIVE InventoryOf(_, _)
\* SELECT ... ORDER BY i.Quantity ASC
InventoryOf(profiles, k) ==
  IF k = 0 THEN <<>>
  ELSE IF profiles[k].stocked
  THEN InsertByQuantity(InventoryOf(profiles, k - 1),
                        InventoryRow(PartIds[k], profiles[k].quantity,
                                     profiles[k].minimumstocklevel))
  ELSE InventoryOf(profiles, k - 1)

RECURSIVE UsageOf(_, _)
\* a usage of more than 100 units is two rows, so that rows are summed
UsageOf(profiles, k) ==
  IF k = 0 THEN <<>>
  ELSE UsageOf(profiles, k - 1)
       \o (IF profiles[k].used = 0 THEN <<>>
           ELSE IF profiles[k].used > 100
           THEN <<UsageRow(PartIds[k], 100), UsageRow(PartIds[k], profiles[k].used - 100)>>
           ELSE <<UsageRow(PartIds[k], profiles[k].used)>>)

\* What the three fetches return.  other_inventory: an inventory row of a part the
\* parts query did not return (the tables changed between the two queries).
Database(fetch, profiles, other_inventory) ==
  [fetch |-> fetch,
   spare_parts |-> [i \in DOMAIN profiles |-> SparePart(PartIds[i], profiles[i].unitprice)],
   inventory |-> (IF other_inventory THEN <<InventoryRow("p0", 0, 10)>> ELSE <<>>)
                 \o InventoryOf(profiles, Len(profiles)),
   usage_history |-> UsageOf(profiles, Len(profiles))]

\* items as a model may write them: one that keeps the two formulas of the prompt,
\* one that does not, and an element that is a string
ItemKept == ForecastItem("p1", 600000, 5, 10, 30, 35, TRUE, 21000000, "medium", 5, 8)

ItemNotKept == ForecastItem("p1", 600000, 5, 10, 30, 12, FALSE, 7200000, "high", 5, 8)

ItemString == [value |-> "text"]

ObjectKeys == {"forecast_period_months", "analysis_date", "spare_parts_forecasts", "summary"}

Objects ==
  {Generated("object", ObjectKeys, TRUE, "", <<ItemKept>>, "summary message"),
   Generated("object", ObjectKeys, TRUE, "", <<ItemKept, ItemNotKept>>, "summary message"),
   Generated("object", ObjectKeys, TRUE, "", <<>>, "summary message"),
   Generated("object", {}, TRUE, "", <<>>, ""),
   Generated("object", {"success", "data_source", "spare_parts_forecasts"}, FALSE, "llm",
             <<ItemKept>>, ""),
   Generated("object", {"spare_parts_forecasts"}, TRUE, "", <<ItemString>>, "")}

Failures == {Failed(k) : k \in {"raise", "no text", "not json", "not object"}}

Answers(primary, simple, second, rec) ==
  [primary |-> primary, simple |-> simple, second |-> second, rec |-> rec]

\* a call that is never made is not told apart
AllAnswers ==
  {Answers(o, Failed("raise"), Failed("raise"), "raise") : o \in Objects}
  \cup {Answers(f, o, Failed("raise"), "raise") : f \in Failures, o \in Objects}
  \cup {Answers(f, g, o, r) : f \in Failures, g \in Failures, o \in Objects \cup Failures,
                             r \in {"list", "raise"}}

NoAnswers == Answers(Failed("raise"), Failed("raise"), Failed("raise"), "raise")

ForecastMonths == {1, 6}

\* every table against a model that fails (the well-stocked tables too), and every
\* answer of the model against an empty database, a part that needs replenishment
\* and a part that does not
ForecastInputs ==
  {[db |-> Database("ok", ps, o), ai |-> NoAnswers] : ps \in ProfileSeqs, o \in BOOLEAN}
  \cup {[db |-> Database("ok", ps, FALSE), ai |-> NoAnswers] : ps \in StockedTables}
  \cup {[db |-> Database("ok", ps, FALSE), ai |-> a] :
          ps \in {<<>>, <<Profile(400000, FALSE, 0, 0, 0)>>,
                  <<Profile(400000, TRUE, 100, 10, 0)>>},
          a \in AllAnswers}
  \cup {[db |-> Database("raise", <<>>, FALSE), ai |-> NoAnswers]}

\* --------------------------------------------------------------- the system
RECURSIVE TotalLog(_, _)
TotalLog(store, ids) ==
  IF ids = {}
  THEN 0
  ELSE LET c == CHOOSE x \in ids : TRUE
       IN Len(store[c]) + TotalLog(store, ids \ {c})

State == [chatbot |-> chatbot, mcp_process |-> mcp_process, store |-> conversations]

Handled(o) ==
  /\ TotalLog(o.store, ConvIds) <= MaxLog
  /\ chatbot' = o.chatbot
  /\ mcp_process' = o.mcp_process
  /\ conversations' = o.store
  /\ resp' = o.resp
  /\ trace' = o.trace
  /\ UNCHANGED <<batch, fc, unit, workers, inits>>

Init ==
  /\ conversations = EmptyStore
  /\ chatbot = None
  /\ mcp_process = None
  /\ resp = NoResponse
  /\ trace = NoTrace
  /\ batch = NoBatch
  /\ fc = NoForecast
  /\ unit = NoUnit
  /\ workers = NoWorkers
  /\ inits = NoInits

\* what the request carries as its message: no key, null, an empty text, a text
MessageText(req) ==
  IF req.msg_key = "absent" THEN "absent"
  ELSE IF req.msg_key = "null" THEN "null"
  ELSE IF req.message = <<>> THEN "empty"
  ELSE "text"

\* the outcome of a request with a note of what the request carried
Noted(o, req) == [o EXCEPT !.trace.message_text = MessageText(req)]

\* POST /api/ai/chat
ApiChat ==
  /\ resp.via = "none"
  /\ \E req \in Requests : \E world \in Worlds(req) :
        Handled(Noted(api_chat(State, req, world), req))

\* the socket event chat_message
HandleChatMessage ==
  /\ resp.via = "none"
  /\ \E req \in Requests : \E world \in Worlds(req) :
        /\ req.context = "given"
        /\ Handled(Noted(handle_chat_message(State, req, world), req))

\* the response leaves the server and the worker takes the next request
Respond ==
  /\ resp.via # "none"
  /\ resp' = NoResponse
  /\ trace' = NoTrace
  /\ UNCHANGED <<conversations, chatbot, mcp_process, batch, fc, unit, workers, inits>>

Next == ApiChat \/ HandleChatMessage \/ Respond

Spec == Init /\ [][Next]_vars

\* -------------------------------------- process_schedule_request on its own
BatchShiftWords ==
  {<<>>, <<"ca", "sangs">>, <<"ca", "chieeuf">>, <<"ca", "toois">>, <<"car", "2", "ca">>}

\* scheduling messages: every pair of dates (in order or not), the relative phrase,
\* no range at all, a date strptime rejects
BatchMessages ==
  {MsgRange(d1, d2, w) : d1 \in 1..NDates, d2 \in 1..NDates, w \in BatchShiftWords}
  \cup {MsgRelative(w) : w \in BatchShiftWords}
  \cup {MsgSchedule, MsgBadDate}

BatchFailures ==
  {Behaviour("timeout", 0, ""), Behaviour("http", 400, "no available technicians"),
   Behaviour("http", 500, "boom")}

\* the auto-assign endpoint fails on a window of days for some shifts
BatchOracles ==
  {Oracle(lo, hi, sh, f) :
     lo \in 1..NDates, hi \in {0, 1, NDates, 1 + WeekDays},
     sh \in {AllShifts, {"Morning"}, {"Evening"}}, f \in BatchFailures}

ProcessScheduleRequest ==
  /\ batch.phase = "idle"
  /\ \E message \in BatchMessages, today \in {1}, oracle \in BatchOracles :
       batch' = [phase |-> "done",
                 date_range |-> extract_date_range(message, today),
                 shifts |-> extract_shifts(message),
                 out |-> process_schedule_request(message, "c1", today, oracle)]
  /\ UNCHANGED <<conversations, chatbot, mcp_process, resp, trace, fc, unit, workers, inits>>

\* the caller takes the result
BatchReturn ==
  /\ batch.phase = "done"
  /\ batch' = NoBatch
  /\ UNCHANGED <<conversations, chatbot, mcp_process, resp, trace, fc, unit, workers, inits>>

NextSchedule == ProcessScheduleRequest \/ BatchReturn

SpecSchedule == Init /\ [][NextSchedule]_vars

\* ----------------------------------------------- properties of SpecSchedule
CallsFor(results, d, s) ==
  Cardinality({i \in DOMAIN results : results[i].date = d /\ results[i].shift = s})

\* C3: a request with a date range makes exactly one auto-assign call for every pair
\* of a date of the range, both ends included, and a requested shift, and no other
\* call: a failed call is not repeated.
C3_OneCallPerDateAndShift ==
  (batch.phase = "done" /\ batch.date_range.kind = "range") =>
    LET results == batch.out.results
        dates == batch.date_range.start..batch.date_range.end
        shifts == Words(batch.shifts)
    IN /\ \A d \in dates : \A s \in shifts : CallsFor(results, d, s) = 1
       /\ \A i \in DOMAIN results : results[i].date \in dates /\ results[i].shift \in shifts
       /\ Len(results) = Cardinality(dates) * Cardinality(shifts)

\* three days and two shifts: six calls, some of them failed
C3_Witness ==
  /\ batch.phase = "done"
  /\ batch.date_range.kind = "range"
  /\ batch.date_range.end = batch.date_range.start + 2
  /\ Len(batch.shifts) = 2
  /\ Len(batch.out.results) = 6
  /\ batch.out.details.failed = 2

\* C4: in the summary of a batch the successful and failed counts add up to the
\* number of calls made, each count is the number of calls with that outcome, and
\* error_details holds min(5, failed) entries.
C4_CountsAndErrorDetails ==
  (batch.phase = "done" /\ batch.out.has_details) =>
    LET results == batch.out.results
        details == batch.out.details
    IN /\ details.successful = Len(SelectSeq(results, IsSuccess))
       /\ details.failed = Len(SelectSeq(results, IsFailure))
       /\ details.successful + details.failed = Len(results)
       /\ Len(details.error_details) = Min(5, details.failed)

\* more than five failed calls, five of them detailed
C4_Witness ==
  /\ batch.phase = "done"
  /\ batch.out.has_details
  /\ batch.out.details.failed > 5
  /\ batch.out.details.successful > 0
  /\ Len(batch.out.details.error_details) = 5

\* ------------------------------------------------- generate_forecast on its own
GenerateForecast ==
  /\ fc.phase = "idle"
  /\ \E input \in ForecastInputs, forecast_months \in ForecastMonths :
       LET out == generate_forecast(None, None, forecast_months, input.db, input.ai)
       IN fc' = [phase |-> "done", db |-> input.db, ai |-> input.ai,
                 forecast_months |-> forecast_months,
                 payload |-> out.payload, model_calls |-> out.model_calls,
                 tier |-> out.tier]
  /\ UNCHANGED <<conversations, chatbot, mcp_process, resp, trace, batch, unit, workers, inits>>

\* the caller takes the payload
ForecastReturn ==
  /\ fc.phase = "done"
  /\ fc' = NoForecast
  /\ UNCHANGED <<conversations, chatbot, mcp_process, resp, trace, batch, unit, workers, inits>>

NextForecast == GenerateForecast \/ ForecastReturn

SpecForecast == Init /\ [][NextForecast]_vars

\* ----------------------------------------------- properties of SpecForecast
KeepsFormulas(f) ==
  /\ f.suggested_order_quantity
       = Max(0, f.total_forecast_demand + f.minimum_stock_level - f.current_stock)
  /\ f.replenishment_needed
       <=> (f.current_stock < f.total_forecast_demand + f.minimum_stock_level)

\* the payload comes from the engine's own computation (forecast_engine.py:287-379)
DataDriven ==
  /\ fc.phase = "done"
  /\ fc.payload.data_source = "ai_enhanced_comprehensive"
  /\ fc.ai.second.kind # "object"

\* C8: every item the engine computes and returns has suggested_order_quantity =
\* max(0, total_forecast_demand + minimum_stock_level - current_stock) and
\* replenishment_needed = (current_stock < total_forecast_demand +
\* minimum_stock_level), the items included by force after the filter selected
\* nothing too.
C8_ItemsKeepTheFormulas ==
  DataDriven =>
    \A i \in DOMAIN fc.payload.spare_parts_forecasts :
      KeepsFormulas(fc.payload.spare_parts_forecasts[i])

\* no object of the model carries a data_source key of its own
EngineTagged(ai) ==
  \A a \in {ai.primary, ai.simple, ai.second} : "data_source" \notin a.keys

\* the (tier, data_source) pairs of the engine's runs with its own tags
TierSources ==
  {<<generate_forecast(None, None, m, i.db, i.ai).tier,
     generate_forecast(None, None, m, i.db, i.ai).payload.data_source>> :
     i \in {j \in ForecastInputs : EngineTagged(j.ai)}, m \in ForecastMonths}

\* C11: the data_source of a payload identifies the tier that produced it: no run
\* of another tier (no data, primary, simplified, second attempt, deterministic
\* computation, error) returns the same data_source.  Stated for the tags the
\* engine writes itself.
C11_DataSourceNamesTheTier ==
  (fc.phase = "done" /\ EngineTagged(fc.ai)) =>
    \A p \in TierSources : p[2] = fc.payload.data_source => p[1] = fc.tier

\* no object of the model carries a success key of its own
EngineFlagged(ai) ==
  \A a \in {ai.primary, ai.simple, ai.second} : "success" \notin a.keys

\* C12: generate_forecast returns a payload on every run, and once the three
\* fetches have succeeded the payload says success = true whatever the generative
\* attempts give (an exception, no text, text that is no JSON, JSON of another
\* shape): success = false is returned only when the data fetch throws.
C12_FailureOnlyWhenFetchThrows ==
  (fc.phase = "done" /\ EngineFlagged(fc.ai)) =>
    /\ "success" \in fc.payload.keys
    /\ (~fc.payload.success => fc.db.fetch = "raise")

\* the prompts of one invocation, in the order of the code
Prompts == <<"forecast_prompt", "simple_prompt", "fallback_prompt", "rec_prompt">>

Sent(prompt) == \E i \in DOMAIN fc.model_calls : fc.model_calls[i] = prompt

\* C13: one invocation sends its prompts in the order primary, simplified, second
\* attempt; a prompt is sent only after every earlier attempt failed, the
\* deterministic computation runs only after all three failed, and the attempt
\* that succeeds is the last forecast prompt of the invocation.
C13_TiersInOrder ==
  fc.phase = "done" =>
    /\ fc.model_calls = SubSeq(Prompts, 1, Len(fc.model_calls))
    /\ (Sent("simple_prompt") => fc.ai.primary.kind # "object")
    /\ (Sent("fallback_prompt") =>
          fc.ai.primary.kind # "object" /\ fc.ai.simple.kind # "object")
    /\ (fc.tier = "deterministic" =>
          /\ fc.ai.primary.kind # "object"
          /\ fc.ai.simple.kind # "object"
          /\ fc.ai.second.kind # "object")
    /\ (fc.tier = "primary" => fc.model_calls = <<"forecast_prompt">>)
    /\ (fc.tier = "simple" => fc.model_calls = <<"forecast_prompt", "simple_prompt">>)

\* the primary attempt failed, the simplified one succeeded and ended the invocation
C13_Witness ==
  /\ fc.phase = "done"
  /\ fc.tier = "simple"
  /\ fc.ai.primary.kind = "not json"
  /\ fc.ai.simple.kind = "object"
  /\ fc.model_calls = <<"forecast_prompt", "simple_prompt">>

\* C29: after any sequence of requests handled one after the other, the last message
\* of every stored conversation has role assistant or error, never user; so the
\* context summary read at the start of a turn is the empty string, and the model
\* gets the message without a hint of the preceding user message.
C29_NoContextHint ==
  /\ \A c \in ConvIds :
       conversations[c] # <<>>
       => conversations[c][Len(conversations[c])].role \in {"assistant", "error"}
  /\ \A c \in ConvIds : get_context_summary(conversations, c) = ""
  /\ trace.context_summary = ""

\* the second turn of a conversation, after a turn that ended in the exception handler
C29_Witness ==
  /\ resp.via # "none" /\ resp.kind = "chat"
  /\ \E c \in ConvIds :
       /\ resp.conversation_id = c
       /\ Roles(conversations[c]) = <<"user", "error", "user", "assistant">>
  /\ trace.primary_calls = 1
  /\ trace.context_summary = ""

\* C30: a payload returned from a generative tier says success = true and carries
\* the data_source of that tier (ai_analysis_real_data for the primary attempt,
\* ai_simple_analysis for the simplified one), whatever keys the object parsed from
\* the model's answer holds, keys named success or data_source included.
C30_GenerativeTierKeepsItsTags ==
  (fc.phase = "done" /\ fc.tier \in {"primary", "simple"})
  => /\ fc.payload.success = TRUE
     /\ fc.payload.data_source
          = (IF fc.tier = "primary" THEN "ai_analysis_real_data" ELSE "ai_simple_analysis")

\* the candidates of the deterministic computation for the fetched rows
Candidates ==
  all_forecasts(fc.db.spare_parts, fc.db.inventory, fc.db.usage_history, fc.forecast_months)

\* replenishment needed, or stock at most 1.5 times the minimum, or demand above stock
Selected(f) ==
  \/ f.replenishment_needed
  \/ 10 * f.current_stock <= 15 * f.minimum_stock_level
  \/ f.total_forecast_demand > f.current_stock

ItemIds(items) == {items[i].spare_part_id : i \in DOMAIN items}

\* C23: the deterministic tier returns exactly the candidates that need replenishment
\* or whose stock is at most 1.5 times the minimum or whose demand is above the stock,
\* in the order of the candidates; when there is none and there are candidates, it
\* returns 3 of them (all if there are fewer), none left out having a higher demand
\* than one returned; so the list is not empty when a part was fetched.
C23_FilterThenTopThree ==
  (fc.phase = "done" /\ fc.tier = "deterministic")
  => LET all == Candidates
         items == fc.payload.spare_parts_forecasts
         chosen == {i \in DOMAIN all : Selected(all[i])}
     IN /\ chosen # {}
           => /\ Len(items) = Cardinality(chosen)
              /\ \A k \in DOMAIN items : \E i \in chosen :
                    /\ items[k] = all[i]
                    /\ Cardinality({j \in chosen : j <= i}) = k
        /\ chosen = {}
           => /\ Len(items) = Min(3, Len(all))
              /\ Cardinality(ItemIds(items)) = Len(items)
              /\ ItemIds(items) \subseteq ItemIds(all)
              /\ \A i \in DOMAIN all : \A k \in DOMAIN items :
                    all[i].spare_part_id \notin ItemIds(items)
                    => all[i].total_forecast_demand <= items[k].total_forecast_demand
        /\ fc.db.spare_parts # <<>> => items # <<>>

\* four well-stocked parts: the three of the highest demand are not the first three
C23_Witness ==
  /\ fc.phase = "done" /\ fc.tier = "deterministic"
  /\ Len(Candidates) = 4
  /\ \A i \in DOMAIN Candidates : ~Selected(Candidates[i])
  /\ Len(fc.payload.spare_parts_forecasts) = 3
  /\ Candidates[1].spare_part_id \notin ItemIds(fc.payload.spare_parts_forecasts)
  /\ Candidates[1].total_forecast_demand < Candidates[4].total_forecast_demand

\* the quantity used of candidate i in the fetched usage history
UsedOf(i) == HistoricalUsage(fc.db.usage_history, Candidates[i].spare_part_id, 1)

\* the integers nearest to n / d (two of them when n / d lies half way)
Nearest(n, d) == {k \in 0..(n \div d + 1) : 2 * n - d <= 2 * k * d /\ 2 * k * d <= 2 * n + d}

\* C24 as stated: for a part with usage H > 0 the demand of the deterministic tier
\* is H / 24 * forecast_months * 1.2 rounded to the nearest integer, and the urgency
\* is high exactly when H / 24 > 5 and medium otherwise.
C24_DemandRoundedToNearest ==
  (fc.phase = "done" /\ fc.tier = "deterministic")
  => \A i \in DOMAIN Candidates :
       UsedOf(i) > 0
       => /\ Candidates[i].total_forecast_demand
               \in Nearest(UsedOf(i) * fc.forecast_months * 12, 240)
          /\ Candidates[i].urgency_level = (IF UsedOf(i) > 120 THEN "high" ELSE "medium")

\* C24 amended: for a part with usage H > 0 the demand of the deterministic tier is
\* H / 24 * forecast_months * 1.2 with the fraction cut off (the largest integer not
\* above it), and the urgency is high exactly when H / 24 > 5 and medium otherwise;
\* the items returned carry the demand and urgency of their candidates.
C24_DemandTruncated ==
  (fc.phase = "done" /\ fc.tier = "deterministic")
  => /\ \A i \in DOMAIN Candidates :
          UsedOf(i) > 0
          => LET d == Candidates[i].total_forecast_demand
                 n == UsedOf(i) * fc.forecast_months * 12
             IN /\ 240 * d <= n /\ n < 240 * (d + 1)
                /\ Candidates[i].urgency_level
                     = (IF UsedOf(i) > 120 THEN "high" ELSE "medium")
     /\ \A k \in DOMAIN fc.payload.spare_parts_forecasts :
          \E i \in DOMAIN Candidates :
            LET f == fc.payload.spare_parts_forecasts[k]
            IN /\ f.spare_part_id = Candidates[i].spare_part_id
               /\ f.total_forecast_demand = Candidates[i].total_forecast_demand
               /\ f.urgency_level = Candidates[i].urgency_level

\* a part used 12 times in 24 months, forecast for one month: 0.6 becomes 0, and the
\* item is returned with medium urgency
C24_Witness ==
  /\ fc.phase = "done" /\ fc.tier = "deterministic" /\ fc.forecast_months = 1
  /\ \E k \in DOMAIN fc.payload.spare_parts_forecasts : \E i \in DOMAIN Candidates :
       /\ fc.payload.spare_parts_forecasts[k] = Candidates[i]
       /\ UsedOf(i) = 12
       /\ Candidates[i].total_forecast_demand = 0
       /\ Candidates[i].urgency_level = "medium"

C9_NoDataReturnsAtOnce ==
  (/\ fc.phase = "done"
   /\ fc.db.fetch = "ok"
   /\ fc.db.spare_parts = <<>>
   /\ fc.db.inventory = <<>>) =>
    /\ fc.model_calls = <<>>
    /\ "success" \in fc.payload.keys /\ fc.payload.success
    /\ fc.payload.spare_parts_forecasts = <<>>
    /\ fc.payload.message # ""

\* ------------------------------------------------------- properties of Spec
\* the response says success = true / success = false in so many words
SaysSuccess(r) == "success" \in r.keys /\ r.success

\* A failure response: success = false in the payload, or the socket's error event,
\* whose payload is {message} alone.
SaysFailure(r) == IF "success" \in r.keys THEN ~r.success ELSE r.via = "emit error"

AutoAssignCalls(tr) == Len(SelectSeq(tr.remote, LAMBDA c : c = "POST auto-assign"))

\* C1: a tool-calling turn executes at most one tool, whatever the number of
\* function-call parts in the model's answer: the turn's function_calls list has at
\* most one entry and function_call_count is at most 1.
C1_AtMostOneTool ==
  trace.workflow = "tool" =>
    /\ Len(trace.tools) <= 1
    /\ Len(resp.function_calls) <= 1
    /\ resp.function_call_count <= 1

\* an answer with several function-call parts, of which the first alone was executed
C1_Witness ==
  /\ trace.workflow = "tool"
  /\ trace.fc_parts >= 2
  /\ Len(trace.tools) = 1
  /\ resp.kind = "chat"
  /\ resp.function_call_count = 1

\* C2: every handled turn, in either workflow and whatever its outcome, appends
\* exactly one user message followed by exactly one assistant or error message to the
\* conversation's log.
C2_EveryTurnAppendsUserThenReply ==
  trace.workflow \in {"schedule", "tool"} =>
    /\ Len(trace.appended) = 2
    /\ trace.appended[1] = "user"
    /\ trace.appended[2] \in {"assistant", "error"}

\* C5: the scheduling workflow's response says success = true exactly when at least
\* one (date, shift) auto-assign call of the turn succeeded; a batch whose calls all
\* failed says success = false.
C5_SuccessIffOneCallSucceeded ==
  trace.workflow = "schedule" => (SaysSuccess(resp) <=> trace.succeeded > 0)

\* a batch that made calls, none of which succeeded
C5_Witness ==
  /\ trace.workflow = "schedule"
  /\ resp.kind = "schedule"
  /\ AutoAssignCalls(trace) >= 2
  /\ trace.succeeded = 0
  /\ "success" \in resp.keys
  /\ ~resp.success

PrimaryUnusable ==
  /\ trace.workflow = "tool"
  /\ \/ trace.primary \in {"blocked", "no candidates"}
     \/ /\ trace.primary = "answered"
        /\ trace.fc_parts = 0
        /\ trace.text \in {"empty", "short"}

\* C10: when the primary model's answer is empty, blocked or unusable the fallback
\* model is asked once, and when the fallback fails too the turn answers with the
\* generic apology and success = false, in the blocked case and in the empty case.
C10_FallbackThenApology ==
  PrimaryUnusable =>
    /\ trace.fallback_calls = 1
    /\ (trace.fallback = "raise" =>
          /\ resp.response = "apology"
          /\ "success" \in resp.keys
          /\ ~resp.success)

\* ------------------------------- gateway calls and extractors on their own
MaxCenters == 2

\* the names the centres of the directory carry
CenterNames ==
  {DefaultCenterName, <<"EV", "Service", "-", "Quaanj", "1">>, <<"EV", "Service">>,
   <<"garage", "hoaf", "binhf">>}

RECURSIVE CenterLists(_)
\* the directories of n centres: the centre at position i has the id CenterIds[i]
CenterLists(n) ==
  IF n = 0
  THEN {<<>>}
  ELSE {Append(l, Center(CenterIds[n], name)) : l \in CenterLists(n - 1), name \in CenterNames}

UnitDirectories ==
  {Directory("exception", 0, <<>>), Directory("http", 500, <<>>)}
  \cup {Directory("http", 200, l) : l \in UNION {CenterLists(n) : n \in 0..MaxCenters}}

\* the names asked for: none, a name of the directory in other capitals, the words of a
\* name, a part of a word among unknown words, unknown words only
CenterQueries ==
  {<<>>, <<"ev", "service", "-", "thur", "dduwcs">>, <<"EV", "Service">>,
   <<"Quaanj", "1">>, <<"thu">>, <<"thu", "hanoi", "city">>, <<"hanoi">>, <<"-">>}

Called(op, input, result) == [phase |-> "done", op |-> op, input |-> input, result |-> result]

FindCenterByName ==
  /\ unit.phase = "idle"
  /\ \E center_name \in CenterQueries : \E directory \in UnitDirectories :
        unit' = Called("find_center_by_name",
                       [center_name |-> center_name, directory |-> directory],
                       find_center_by_name(center_name, directory))
  /\ UNCHANGED <<conversations, chatbot, mcp_process, resp, trace, batch, fc, workers, inits>>

\* what the endpoint may do with one call; the remote error text may be any text,
\* that of the fixed failure results included
RemoteTexts ==
  {"", "no available technicians", "boom", TimeoutText, ConnectionText, NonString}

UnitBehaviours ==
  {Behaviour("timeout", 0, ""), Behaviour("connection", 0, ""),
   Behaviour("exception", 0, "boom"), Ok200}
  \cup {Behaviour("http", status, text) : status \in {400, 404, 500, 503}, text \in RemoteTexts}

CallAutoAssignApi ==
  /\ unit.phase = "idle"
  /\ \E shift \in AllShifts : \E work_date \in 1..NDates : \E behaviour \in UnitBehaviours :
        unit' = Called("call_auto_assign_api",
                       [center_id |-> "c1", shift |-> shift, work_date |-> work_date,
                        behaviour |-> behaviour],
                       call_auto_assign_api("c1", shift, work_date, behaviour))
  /\ UNCHANGED <<conversations, chatbot, mcp_process, resp, trace, batch, fc, workers, inits>>

\* the words about shifts a message may carry: the phrases the extractor knows, a
\* shift it does not know, a known one in capitals, none
ShiftPhrases ==
  BatchShiftWords \cup {<<"car", "hai", "ca">>, <<"ca", "khuya">>, <<"Ca", "Sangs">>,
                        <<"sangs">>, <<"toois">>}

ShiftMessages ==
  {MsgSchedule \o first \o second : first \in ShiftPhrases, second \in ShiftPhrases}

ExtractShifts ==
  /\ unit.phase = "idle"
  /\ \E message \in ShiftMessages :
        unit' = Called("extract_shifts", [message |-> message], extract_shifts(message))
  /\ UNCHANGED <<conversations, chatbot, mcp_process, resp, trace, batch, fc, workers, inits>>

\* messages about a date range: every pair of dates, the relative phrase alone and
\* before a pattern, half of the relative phrase, the pattern in capitals, cut short,
\* twice, with a date that is none (alone and before a pattern with dates), and no
\* range at all
DateMessages ==
  {MsgRange(d1, d2, <<>>) : d1 \in 1..NDates, d2 \in 1..NDates}
  \cup {MsgRange(d1, d2, <<"tuwf", "ngayf", DateWords[d2], "towis", "ngayf", DateWords[d1]>>) :
          d1 \in 1..NDates, d2 \in 1..NDates}
  \cup {MsgRelative(<<>>), MsgRelative(<<"tuwf", "ngayf", DateWords[1], "towis", "ngayf", DateWords[2]>>),
        MsgSchedule, MsgBadDate,
        MsgBadDate \o <<"tuwf", "ngayf", DateWords[1], "towis", "ngayf", DateWords[2]>>,
        MsgSchedule \o <<"tuwf", "giowf">>,
        MsgSchedule \o <<"Tuwf", "ngayf", DateWords[1], "towis", "ngayf", DateWords[2]>>,
        MsgSchedule \o <<"tuwf", "ngayf", DateWords[1]>>,
        MsgSchedule \o <<"tuwf", "ngayf", DateWords[1], "ddeens", "ngayf", DateWords[2]>>}

ExtractDateRange ==
  /\ unit.phase = "idle"
  /\ \E message \in DateMessages : \E today \in 1..NDates :
        unit' = Called("extract_date_range", [message |-> message, today |-> today],
                       extract_date_range(message, today))
  /\ UNCHANGED <<conversations, chatbot, mcp_process, resp, trace, batch, fc, workers, inits>>

UnitReturn ==
  /\ unit.phase = "done"
  /\ unit' = NoUnit
  /\ UNCHANGED <<conversations, chatbot, mcp_process, resp, trace, batch, fc, workers, inits>>

NextUnits ==
  FindCenterByName \/ CallAutoAssignApi \/ ExtractShifts \/ ExtractDateRange \/ UnitReturn

SpecUnits == Init /\ [][NextUnits]_vars

\* ------------------------------------------- get_usage_history on its own
\* the arguments of one call: months given or not, a part id or none
UsageArguments(has_months, months, spare_part_id) ==
  [has_months |-> has_months, months |-> months, spare_part_id |-> spare_part_id]

\* the query sent to the database: the months-back window, the part the rows are
\* restricted to (None for all parts), the LIMIT of the statement (0 for none)
UsageQuery(months, spare_part_id, limit) ==
  [months |-> months, spare_part_id |-> spare_part_id, limit |-> limit]

\* mcp_interface.py:365, true_mcp_server.py:144: max(1, min(24, months))
ClampMonths(months) == Max(1, Min(24, months))

\* mcp_interface.py:351-387: arguments.get("months", 6), empty ids filtered out,
\* the window clamped, LIMIT 15
ChatbotUsageHistory(arguments) ==
  LET months == IF arguments.has_months THEN arguments.months ELSE 6
      spare_part_id == IF arguments.spare_part_id \in {None, ""}
                       THEN None ELSE arguments.spare_part_id
  IN UsageQuery(ClampMonths(months), spare_part_id, 15)

\* forecast_engine.py:87-109: arguments.get("months", 12) goes into the query as it
\* is, LIMIT 100
EngineUsageHistory(arguments) ==
  LET months == IF arguments.has_months THEN arguments.months ELSE 12
      spare_part_id == IF arguments.spare_part_id \in {None, ""}
                       THEN None ELSE arguments.spare_part_id
  IN UsageQuery(months, spare_part_id, 100)

\* true_mcp_server.py:138-163: arguments.get("months", 12), the window clamped, no
\* LIMIT
ServerUsageHistory(arguments) ==
  LET months == IF arguments.has_months THEN arguments.months ELSE 12
      spare_part_id == IF arguments.spare_part_id \in {None, ""}
                       THEN None ELSE arguments.spare_part_id
  IN UsageQuery(ClampMonths(months), spare_part_id, 0)

\* months from below 1 to above 24, and the argument left out
MonthsArguments == -4..28

UsageCalls ==
  {UsageArguments(TRUE, months, id) : months \in MonthsArguments, id \in {None, "", "p1"}}
  \cup {UsageArguments(FALSE, 0, id) : id \in {None, "", "p1"}}

UsagePaths == {"chatbot", "engine", "server"}

GetUsageHistory ==
  /\ unit.phase = "idle"
  /\ \E path \in UsagePaths : \E arguments \in UsageCalls :
        unit' = Called("get_usage_history", [path |-> path, arguments |-> arguments],
                       CASE path = "chatbot" -> ChatbotUsageHistory(arguments)
                         [] path = "engine" -> EngineUsageHistory(arguments)
                         [] path = "server" -> ServerUsageHistory(arguments))
  /\ UNCHANGED <<conversations, chatbot, mcp_process, resp, trace, batch, fc, workers, inits>>

NextHistory == GetUsageHistory \/ UnitReturn

SpecHistory == Init /\ [][NextHistory]_vars

\* C26: on every path that queries the usage history (the chatbot's tool, the
\* forecast engine's database function, the tool server) the months-back window of
\* the query lies between 1 and 24, whatever months the caller gave.
C26_WindowWithinBounds ==
  (unit.phase = "done" /\ unit.op = "get_usage_history")
  => unit.result.months \in 1..24

\* ------------------------------------------ the forecast_demand tool on its own
\* forecast_engine.py:662-685: the wrappers hand their arguments to generate_forecast
run_forecast_async(spare_part_id, center_id, forecast_months, db, ai) ==
  generate_forecast(spare_part_id, center_id, forecast_months, db, ai)

\* mcp_interface.py:405-468 with the database up.  part_name: whether the arguments
\* name a part; found: the id of the first part whose name is like it, None when no
\* part is.  The result: the id handed to the engine and the engine's payload, or
\* the answer that no part was found.
ForecastDemandTool(part_name, found, months, db, ai) ==
  IF part_name /\ found = None
  THEN [kind |-> "part not found", spare_part_id |-> None, forecast_result |-> <<>>]
  ELSE LET spare_part_id == IF part_name THEN found ELSE None
           out == run_forecast_async(spare_part_id, None, Max(1, Min(12, months)), db, ai)
       IN [kind |-> "forecast", spare_part_id |-> spare_part_id,
           forecast_result |-> out.payload]

\* the months the model may ask for: none, and the periods of the forecasts
ToolMonths == {0} \cup ForecastMonths

\* a name is looked up in the table the engine reads: it is like no part or like
\* one of the table
ForecastDemand ==
  /\ unit.phase = "idle"
  /\ \E ps \in ProfileSeqs, part_name \in BOOLEAN, months \in ToolMonths :
       \E found \in {None} \cup {PartIds[i] : i \in DOMAIN ps} :
         /\ ~part_name => found = None
         /\ LET db == Database("ok", ps, FALSE)
            IN unit' = Called("forecast_demand",
                              [part_name |-> part_name, found |-> found,
                               months |-> months, db |-> db],
                              ForecastDemandTool(part_name, found, months, db, NoAnswers))
  /\ UNCHANGED <<conversations, chatbot, mcp_process, resp, trace, batch, fc, workers, inits>>

NextTool == ForecastDemand \/ UnitReturn

SpecTool == Init /\ [][NextTool]_vars

\* C27: when the forecast_demand tool is called with a part name that is like a
\* part, every item of the forecast it returns is about that part.
C27_ForecastOfNamedPartOnly ==
  (unit.phase = "done" /\ unit.op = "forecast_demand"
     /\ unit.input.part_name /\ unit.input.found # None)
  => /\ unit.result.kind = "forecast"
     /\ unit.result.spare_part_id = unit.input.found
     /\ \A k \in DOMAIN unit.result.forecast_result.spare_parts_forecasts :
          unit.result.forecast_result.spare_parts_forecasts[k].spare_part_id
            = unit.input.found

Ids(centers) == {centers[i].id : i \in DOMAIN centers}

NoStageMatches(center_name, centers) ==
  LET search_name == LowerMsg(IF center_name = <<>> THEN DefaultCenterName ELSE center_name)
  IN \A i \in DOMAIN centers :
        LET center_db_name == LowerMsg(centers[i].name)
        IN /\ center_db_name # search_name
           /\ Score2(Keywords(search_name), Keywords(center_db_name), 1) = 0
           /\ ~FuzzyMatch(search_name, Keywords(search_name), center_db_name)

\* C14: when the centre directory answers 200 with at least one centre,
\* find_center_by_name returns the id of a centre of the directory for every name asked
\* for, never None; when no centre matches the name exactly, by keywords or as a
\* substring, the id returned is that of the first centre of the directory.
C14_DirectoryWithCentresAlwaysResolves ==
  (/\ unit.phase = "done" /\ unit.op = "find_center_by_name"
   /\ unit.input.directory.kind = "http" /\ unit.input.directory.status = 200
   /\ unit.input.directory.centers # <<>>)
  => /\ unit.result # None
     /\ unit.result \in Ids(unit.input.directory.centers)
     /\ NoStageMatches(unit.input.center_name, unit.input.directory.centers)
        => unit.result = unit.input.directory.centers[1].id

C14_Witness ==
  /\ unit.phase = "done" /\ unit.op = "find_center_by_name"
  /\ unit.input.center_name = <<"hanoi">>
  /\ Len(unit.input.directory.centers) = MaxCenters
  /\ NoStageMatches(unit.input.center_name, unit.input.directory.centers)
  /\ unit.result = unit.input.directory.centers[1].id


SearchName(center_name) ==
  LowerMsg(IF center_name = <<>> THEN DefaultCenterName ELSE center_name)

\* twice the keyword score of the centre at position i for the name asked for
ScoreOf(center_name, centers, i) ==
  Score2(Keywords(SearchName(center_name)), Keywords(LowerMsg(centers[i].name)), 1)

ExactCentres(center_name, centers) ==
  {i \in DOMAIN centers : LowerMsg(centers[i].name) = SearchName(center_name)}

\* the centres whose score is at least half the number of keywords and not zero
KeywordCentres(center_name, centers) ==
  {i \in DOMAIN centers :
     /\ ScoreOf(center_name, centers, i) > 0
     /\ ScoreOf(center_name, centers, i) >= Len(Keywords(SearchName(center_name)))}

SubstringCentres(center_name, centers) ==
  {i \in DOMAIN centers :
     FuzzyMatch(SearchName(center_name), Keywords(SearchName(center_name)),
                LowerMsg(centers[i].name))}

First(indices) == CHOOSE i \in indices : \A j \in indices : i <= j

\* C15: find_center_by_name returns the first centre whose name equals the name asked
\* for (capitals aside) whatever the keyword scores of the other centres; only when
\* there is none, the first centre of the highest keyword score if that score reaches
\* half the number of keywords; only when there is none either, the first centre the
\* substring test accepts; and only when every stage yielded nothing, the first centre.
C15_StagesInOrder ==
  (/\ unit.phase = "done" /\ unit.op = "find_center_by_name"
   /\ unit.input.directory.kind = "http" /\ unit.input.directory.status = 200)
  => LET center_name == unit.input.center_name
         centers == unit.input.directory.centers
         exact == ExactCentres(center_name, centers)
         keyword == KeywordCentres(center_name, centers)
         substring == SubstringCentres(center_name, centers)
     IN IF exact # {}
        THEN unit.result = centers[First(exact)].id
        ELSE IF keyword # {}
        THEN /\ unit.result \in {centers[i].id : i \in keyword}
             /\ \A i \in DOMAIN centers :
                   LET r == CHOOSE j \in keyword : centers[j].id = unit.result
                   IN /\ ScoreOf(center_name, centers, i) <= ScoreOf(center_name, centers, r)
                      /\ ScoreOf(center_name, centers, i) = ScoreOf(center_name, centers, r)
                         => r <= i
        ELSE IF substring # {}
        THEN unit.result = centers[First(substring)].id
        ELSE IF centers # <<>>
        THEN unit.result = centers[1].id
        ELSE unit.result = None

\* a centre of the very name stands second, behind one that has all the keywords
C15_Witness ==
  /\ unit.phase = "done" /\ unit.op = "find_center_by_name"
  /\ unit.input.center_name = <<"EV", "Service">>
  /\ Len(unit.input.directory.centers) = 2
  /\ unit.input.directory.centers[1].name = DefaultCenterName
  /\ unit.input.directory.centers[2].name = <<"EV", "Service">>
  /\ ScoreOf(unit.input.center_name, unit.input.directory.centers, 1)
       = ScoreOf(unit.input.center_name, unit.input.directory.centers, 2)
  /\ unit.result = unit.input.directory.centers[2].id


\* the three failures of an auto-assign call the spec tells apart
FailureClass(behaviour) ==
  IF behaviour.kind \in {"timeout", "connection"} THEN behaviour.kind
  ELSE IF behaviour.kind = "http" /\ behaviour.status # 200 THEN "rejection"
  ELSE "other"

\* C16: call_auto_assign_api returns a result for every behaviour of the endpoint, a
\* failure result for every failed call, and the result of a timeout, of a connection
\* failure and of a non-200 answer differ pairwise whatever the remote error text is:
\* no call of another of the three classes returns the same result.
C16_FailureKindsDistinguishable ==
  (unit.phase = "done" /\ unit.op = "call_auto_assign_api")
  => LET behaviour == unit.input.behaviour
         class == FailureClass(behaviour)
     IN /\ unit.result.success \in BOOLEAN
        /\ unit.result.success <=> (behaviour.kind = "http" /\ behaviour.status = 200)
        /\ class \in {"timeout", "connection", "rejection"}
           => \A other \in UnitBehaviours :
                 (/\ FailureClass(other) \in {"timeout", "connection", "rejection"}
                  /\ FailureClass(other) # class)
                 => call_auto_assign_api(unit.input.center_id, unit.input.shift,
                                         unit.input.work_date, other) # unit.result

\* a 503 answer whose error text is the text of the timeout result
C16_Witness ==
  /\ unit.phase = "done" /\ unit.op = "call_auto_assign_api"
  /\ unit.input.behaviour = Behaviour("http", 503, TimeoutText)
  /\ unit.result.error = call_auto_assign_api("c1", "Morning", 1, Behaviour("timeout", 0, "")).error
  /\ unit.result.status_code = 503


\* C17: for every message extract_shifts returns a list that is not empty and whose
\* elements are all among Morning, Evening and Night.
C17_ShiftsNonEmptyAndKnown ==
  (unit.phase = "done" /\ unit.op = "extract_shifts")
  => /\ Len(unit.result) >= 1
     /\ \A i \in DOMAIN unit.result : unit.result[i] \in AllShifts

\* a message that names only a shift the extractor does not know
C17_Witness ==
  /\ unit.phase = "done" /\ unit.op = "extract_shifts"
  /\ unit.input.message = MsgSchedule \o <<"ca", "khuya">> \o <<"Ca", "Sangs">>
  /\ unit.result = <<"Morning">>


\* the words of a message about shifts
HasWord(message, w) == \E i \in DOMAIN message : message[i] = w

BothShifts(message) ==
  \E i \in DOMAIN message :
    \/ (i + 1 <= Len(message) /\ message[i] = "2" /\ message[i + 1] = "ca")
    \/ (i + 2 <= Len(message) /\ message[i] = "car" /\ message[i + 1] = "hai"
                              /\ message[i + 2] = "ca")

\* C25: extract_shifts decides by the first check that matches, in the order both
\* shifts, morning, afternoon, night, default: a both-shifts phrase gives Morning and
\* Evening whatever else the message holds, otherwise a morning word gives Morning
\* even beside a night word, otherwise an afternoon word gives Evening, otherwise a
\* night word gives Night, and a message of no shift word gives Morning.
C25_FirstMatchingCheckWins ==
  (unit.phase = "done" /\ unit.op = "extract_shifts")
  => LET message == unit.input.message
     IN /\ BothShifts(message) => unit.result = <<"Morning", "Evening">>
        /\ (~BothShifts(message) /\ HasWord(message, "sangs"))
           => unit.result = <<"Morning">>
        /\ (~BothShifts(message) /\ ~HasWord(message, "sangs")
              /\ HasWord(message, "chieeuf"))
           => unit.result = <<"Evening">>
        /\ (~BothShifts(message) /\ ~HasWord(message, "sangs")
              /\ ~HasWord(message, "chieeuf") /\ HasWord(message, "toois"))
           => unit.result = <<"Night">>
        /\ (~BothShifts(message) /\ ~HasWord(message, "sangs")
              /\ ~HasWord(message, "chieeuf") /\ ~HasWord(message, "toois"))
           => unit.result = <<"Morning">>

\* a message that names the night shift and then the morning
C25_Witness ==
  /\ unit.phase = "done" /\ unit.op = "extract_shifts"
  /\ unit.input.message = MsgSchedule \o <<"ca", "toois">> \o <<"sangs">>
  /\ unit.result = <<"Morning">>

RelativePhrase(message) ==
  Contains(message, <<"tuwf", "giowf">>) /\ Contains(message, <<"tuaanf", "sau">>)

IsoDate(w) == \E n \in DOMAIN DateWords : DateWords[n] = w

\* the positions where "tu ngay X toi ngay Y" stands with two ISO dates
RangeAt(message) ==
  {i \in DOMAIN message :
     /\ i + 5 <= Len(message)
     /\ SubSeq(message, i, i + 1) = <<"tuwf", "ngayf">>
     /\ SubSeq(message, i + 3, i + 4) = <<"towis", "ngayf">>
     /\ IsoDate(message[i + 2]) /\ IsoDate(message[i + 5])}

\* the positions where the pattern \d{4}-\d{2}-\d{2} of the phrase is met
PatternAt(message) == {i \in DOMAIN message : DatePatternAt(message, i)}

Tag(t, n) == <<t, n>>

\* `conversation_id in self.conversations`: a list created and still empty is that of
\* a thread that stands before its append
Present(conversation_id) ==
  \/ conversations[conversation_id] # <<>>
  \/ \E t \in Threads :
        /\ workers[t].conversation_id = conversation_id
        /\ workers[t].pc = "append" /\ workers[t].missing

\* mcp_interface.py 546-685, 706-707: the turn up to its first add_message call; the
\* model answers (reply "assistant") or raises (reply "error")
ProcessChatMessage ==
  \E t \in Threads : \E conversation_id \in ConvIds : \E reply \in {"assistant", "error"} :
    /\ workers[t].pc = "idle" /\ workers[t].turns < MaxTurns
    /\ workers' = [workers EXCEPT ![t] =
                     [pc |-> "check", turns |-> @.turns + 1,
                      conversation_id |-> conversation_id, reply |-> reply,
                      role |-> "user", missing |-> FALSE]]
    /\ UNCHANGED <<conversations, chatbot, mcp_process, resp, trace, batch, fc, unit, inits>>

\* mcp_interface.py 28: if conversation_id not in self.conversations
AddMessageCheck ==
  \E t \in Threads :
    /\ workers[t].pc = "check"
    /\ workers' = [workers EXCEPT ![t].pc = "create",
                                  ![t].missing = ~Present(workers[t].conversation_id)]
    /\ UNCHANGED <<conversations, chatbot, mcp_process, resp, trace, batch, fc, unit, inits>>

\* mcp_interface.py 29: self.conversations[conversation_id] = []
AddMessageCreate ==
  \E t \in Threads :
    /\ workers[t].pc = "create"
    /\ conversations' = IF workers[t].missing
                        THEN [conversations EXCEPT ![workers[t].conversation_id] = <<>>]
                        ELSE conversations
    /\ workers' = [workers EXCEPT ![t].pc = "append"]
    /\ UNCHANGED <<chatbot, mcp_process, resp, trace, batch, fc, unit, inits>>

\* mcp_interface.py 38: the append; after the user message the thread goes on to the
\* add_message call of the reply (690-693, 712-714), after the reply the turn returns
AddMessageAppend ==
  \E t \in Threads :
    /\ workers[t].pc = "append"
    /\ conversations' = add_message(conversations, workers[t].conversation_id,
                                    workers[t].role, Tag(t, workers[t].turns), <<>>)
    /\ workers' = [workers EXCEPT ![t] =
                     IF workers[t].role = "user"
                     THEN [workers[t] EXCEPT !.pc = "check", !.role = workers[t].reply,
                                             !.missing = FALSE]
                     ELSE Idle(workers[t].turns)]
    /\ UNCHANGED <<chatbot, mcp_process, resp, trace, batch, fc, unit, inits>>

NextTurns == ProcessChatMessage \/ AddMessageCheck \/ AddMessageCreate \/ AddMessageAppend

SpecTurns == Init /\ [][NextTurns]_vars

\* the turn that wrote this text has returned
Returned(content) ==
  \A t \in Threads : workers[t].pc = "idle" \/ Tag(t, workers[t].turns) # content

\* C20: when two turns of one conversation run at the same time, the stored sequence
\* keeps each turn's messages together: every user message of a turn that has
\* returned is immediately followed by the assistant or error message of that turn.
C20_AppendsDoNotInterleave ==
  \A conversation_id \in ConvIds :
    LET history == conversations[conversation_id]
    IN \A i \in DOMAIN history :
          (history[i].role = "user" /\ Returned(history[i].content))
          => /\ i < Len(history)
             /\ history[i + 1].role \in {"assistant", "error"}
             /\ history[i + 1].content = history[i].content


\* ----------------------------------- init_chatbot under concurrent requests
\* mcp_interface.py:229-232: a chatbot as its constructor leaves it, an empty store
\* and no tool-server process; started counts the processes start_mcp_server opened
GeminiMCPChatbot == [store |-> EmptyStore, mcp_process |-> None, started |-> 0]

\* mcp_interface.py:234-248: opens a process unless the chatbot has one
start_mcp_server(bot) ==
  IF bot.mcp_process = None
  THEN [bot EXCEPT !.mcp_process = "running", !.started = @ + 1]
  ELSE bot

\* chatbot_api.py:462, 485, 549: a request thread enters init_chatbot and reads the
\* global (chatbot_api.py:36, `if chatbot is None`)
InitChatbotCheck ==
  \E t \in Threads : \E conversation_id \in ConvIds :
    /\ inits.threads[t].pc = "idle" /\ inits.threads[t].turns < MaxTurns
    /\ inits' = [inits EXCEPT !.threads[t].pc =
                                 IF inits.chatbot = 0 THEN "construct" ELSE "return",
                               !.threads[t].conversation_id = conversation_id]
    /\ UNCHANGED <<conversations, chatbot, mcp_process, resp, trace, batch, fc, unit, workers>>

\* chatbot_api.py:37: chatbot = GeminiMCPChatbot(); the global now names the new one
InitChatbotConstruct ==
  \E t \in Threads :
    /\ inits.threads[t].pc = "construct"
    /\ inits' = [inits EXCEPT !.built = Append(@, GeminiMCPChatbot),
                               !.chatbot = Len(inits.built) + 1,
                               !.threads[t].pc = "start"]
    /\ UNCHANGED <<conversations, chatbot, mcp_process, resp, trace, batch, fc, unit, workers>>

\* chatbot_api.py:38: chatbot.start_mcp_server() on the chatbot the global names now
InitChatbotStart ==
  \E t \in Threads :
    /\ inits.threads[t].pc = "start"
    /\ inits' = [inits EXCEPT !.built[inits.chatbot] = start_mcp_server(@),
                               !.threads[t].pc = "return"]
    /\ UNCHANGED <<conversations, chatbot, mcp_process, resp, trace, batch, fc, unit, workers>>

\* chatbot_api.py:39: return chatbot; the caller keeps it as bot
InitChatbotReturn ==
  \E t \in Threads :
    /\ inits.threads[t].pc = "return"
    /\ inits' = [inits EXCEPT !.threads[t].pc = "turn",
                               !.threads[t].bot = inits.chatbot]
    /\ UNCHANGED <<conversations, chatbot, mcp_process, resp, trace, batch, fc, unit, workers>>

\* mcp_interface.py:546-693: bot.process_chat_message starts the tool server if bot
\* has none and appends the user message and the answer to bot's store
TurnOnBot ==
  \E t \in Threads :
    LET th == inits.threads[t]
        started == start_mcp_server(inits.built[th.bot])
        text == Tag(t, th.turns + 1)
    IN /\ th.pc = "turn"
       /\ inits' = [inits EXCEPT
                      !.built[th.bot] =
                        [started EXCEPT !.store =
                           add_message(add_message(@, th.conversation_id, "user", text, <<>>),
                                       th.conversation_id, "assistant", text, <<>>)],
                      !.threads[t] = [pc |-> "idle", turns |-> th.turns + 1, bot |-> 0,
                                      conversation_id |-> None]]
       /\ UNCHANGED <<conversations, chatbot, mcp_process, resp, trace, batch, fc, unit, workers>>

NextInit ==
  InitChatbotCheck \/ InitChatbotConstruct \/ InitChatbotStart \/ InitChatbotReturn
  \/ TurnOnBot

SpecInit == Init /\ [][NextInit]_vars

\* the texts stored in a chatbot's conversations
StoredTexts(bot) ==
  UNION {{bot.store[c][i].content : i \in DOMAIN bot.store[c]} : c \in ConvIds}

RECURSIVE ProcessesStarted(_, _)
ProcessesStarted(built, k) ==
  IF k = 0 THEN 0 ELSE built[k].started + ProcessesStarted(built, k - 1)

\* C28: whatever the interleaving of first requests, init_chatbot builds at most one
\* chatbot, so one conversation store and one tool-server process, and the messages
\* of every turn that has returned are in the store of the global chatbot.
C28_OneChatbotEver ==
  /\ Len(inits.built) <= 1
  /\ ProcessesStarted(inits.built, Len(inits.built)) <= 1
  /\ \A t \in Threads : \A n \in 1..inits.threads[t].turns :
       /\ inits.chatbot # 0
       /\ Tag(t, n) \in StoredTexts(inits.built[inits.chatbot])

\* ---------------------------------------------------- saving a forecast
\* forecast_engine.py:607-646, one item after the other.  db[k] is what the database
\* does while item k is handled: centers "row" (an active centre), "empty" or "raise"
\* for the centre query, execute "ok" or "raise" for the insert, which db_connection
\* commits on its own (db_connection.py 72-86).  inserted lists the items whose row
\* is in the table when the loop ends; raised tells that the loop ended in an exception.
RECURSIVE SaveLoop(_, _, _, _)
SaveLoop(forecasts, db, k, inserted) ==
  IF k > Len(forecasts)
  THEN [raised |-> FALSE, inserted |-> inserted]
  ELSE IF db[k].centers # "row"
  THEN SaveLoop(forecasts, db, k + 1, inserted)
  ELSE IF db[k].execute = "raise"
  THEN [raised |-> TRUE, inserted |-> inserted]
  ELSE SaveLoop(forecasts, db, k + 1, Append(inserted, k))

\* forecast_engine.py:597-659.  saved_forecasts is read only where the key is there.
save_forecast_to_database(forecast_data, db) ==
  IF forecast_data.spare_parts_forecasts = <<>>
  THEN [keys |-> {"error"}, success |-> FALSE, saved_forecasts |-> 0, inserted |-> <<>>]
  ELSE LET loop == SaveLoop(forecast_data.spare_parts_forecasts, db, 1, <<>>)
       IN IF loop.raised
          THEN [keys |-> {"success", "error", "saved_forecasts"}, success |-> FALSE,
                saved_forecasts |-> 0, inserted |-> loop.inserted]
          ELSE [keys |-> {"success", "saved_forecasts", "message"}, success |-> TRUE,
                saved_forecasts |-> Len(loop.inserted), inserted |-> loop.inserted]

\* items of a payload, reduced to the key the insert needs
SaveItems == {[spare_part_id |-> id] : id \in {"p1", "p2"}}

SaveDbSteps == [centers : {"row", "empty", "raise"}, execute : {"ok", "raise"}]

RECURSIVE SeqsOf(_, _)
SeqsOf(S, n) == IF n = 0 THEN {<<>>} ELSE {Append(q, x) : q \in SeqsOf(S, n - 1), x \in S}

SaveForecastToDatabase ==
  /\ unit.phase = "idle"
  /\ \E n \in 0..MaxItems : \E forecasts \in SeqsOf(SaveItems, n) : \E db \in SeqsOf(SaveDbSteps, n) :
        unit' = Called("save_forecast_to_database",
                       [forecast_data |-> [spare_parts_forecasts |-> forecasts], db |-> db],
                       save_forecast_to_database([spare_parts_forecasts |-> forecasts], db))
  /\ UNCHANGED <<conversations, chatbot, mcp_process, resp, trace, batch, fc, workers, inits>>

NextSave == SaveForecastToDatabase \/ UnitReturn

SpecSave == Init /\ [][NextSave]_vars

\* C21: for every payload handed to save_forecast_to_database no item is inserted
\* twice, an item handled while no active centre can be resolved is not inserted and
\* a save in which no insert fails is no failure, and the saved_forecasts the result
\* reports is the number of items whose row was inserted.
C21_SavedCountIsInsertCount ==
  (unit.phase = "done" /\ unit.op = "save_forecast_to_database")
  => LET forecasts == unit.input.forecast_data.spare_parts_forecasts
         db == unit.input.db
         inserted == unit.result.inserted
     IN /\ \A i, j \in DOMAIN inserted : inserted[i] = inserted[j] => i = j
        /\ \A k \in DOMAIN forecasts :
              db[k].centers # "row" => \A i \in DOMAIN inserted : inserted[i] # k
        /\ (forecasts # <<>> /\ \A k \in DOMAIN forecasts : db[k].centers # "row")
           => unit.result.success
        /\ "saved_forecasts" \in unit.result.keys
           => unit.result.saved_forecasts = Len(inserted)


\* C22: a chat request without message text (no message key, a null or an empty
\* message) is answered with an error and changes nothing: the conversation store,
\* the chatbot and the tool-server process stay as they were, and no remote call and
\* no call of the generative model is made.
C22_NoMessageNoSideEffects ==
  [][(resp.via = "none" /\ resp'.via # "none"
      /\ trace'.message_text \in {"absent", "null", "empty"})
     => /\ ~resp'.success /\ resp'.kind \in {"message required", "exception"}
        /\ conversations' = conversations
        /\ chatbot' = chatbot /\ mcp_process' = mcp_process
        /\ trace'.remote = <<>> /\ trace'.tools = <<>>
        /\ trace'.primary_calls = 0 /\ trace'.fallback_calls = 0]_vars

============================================================================
